---- MODULE Spec2Model ----
(***************************************************************************)
(* Procurement workflow: proposal scoring (proposalEvaluationService.ts),  *)
(* the proposal / RFP tables and the comparison cache kept on the RFP row  *)
(* (routes/ai.ts, routes/proposal.ts, the RFP routes, the email poller).   *)
(*                                                                         *)
(* Conventions.  An optional value (null / undefined in the source) is a   *)
(* sequence of length at most one: None is absent, Some(v) is present.     *)
(* Money amounts are integers (one unit = the smallest amount quoted);     *)
(* ratios of them are computed exactly.  A completeness in [0,1] is an     *)
(* integer number of thousandths.  Text is a TLA+ string.                  *)
(***************************************************************************)
EXTENDS Integers, Sequences, FiniteSets, TLC

None == <<>>
Some(v) == <<v>>
Val(o) == o[1]

\* JavaScript truthiness of an optional number / optional string.
TruthyNum(o) == o # None /\ Val(o) # 0
TruthyStr(o) == o # None /\ Val(o) # ""

\* a ?? b
Coalesce(a, b) == IF a # None THEN a ELSE b

\* a || undefined, for an optional number / string
NumOrUndefined(o) == IF TruthyNum(o) THEN o ELSE None
StrOrUndefined(o) == IF TruthyStr(o) THEN o ELSE None

Abs(n) == IF n < 0 THEN 0 - n ELSE n
Max(a, b) == IF a >= b THEN a ELSE b
Min(a, b) == IF a <= b THEN a ELSE b

\* Math.round(n / d) for d > 0: the nearest integer, halves going up.
MathRound(n, d) == (2 * n + d) \div (2 * d)

(***************************************************************************)
(* Strings                                                                 *)
(***************************************************************************)
CharAt(s, i) == SubSeq(s, i, i)

LowerChar(c) ==
  CASE c = "A" -> "a" [] c = "B" -> "b" [] c = "C" -> "c" [] c = "D" -> "d"
    [] c = "E" -> "e" [] c = "F" -> "f" [] c = "G" -> "g" [] c = "H" -> "h"
    [] c = "I" -> "i" [] c = "J" -> "j" [] c = "K" -> "k" [] c = "L" -> "l"
    [] c = "M" -> "m" [] c = "N" -> "n" [] c = "O" -> "o" [] c = "P" -> "p"
    [] c = "Q" -> "q" [] c = "R" -> "r" [] c = "S" -> "s" [] c = "T" -> "t"
    [] c = "U" -> "u" [] c = "V" -> "v" [] c = "W" -> "w" [] c = "X" -> "x"
    [] c = "Y" -> "y" [] c = "Z" -> "z" [] OTHER -> c

RECURSIVE toLowerCase(_)
toLowerCase(s) ==
  IF s = "" THEN "" ELSE LowerChar(CharAt(s, 1)) \o toLowerCase(SubSeq(s, 2, Len(s)))

\* s.includes(sub)
includes(s, sub) ==
  \E i \in 1..(Len(s) - Len(sub) + 1) : SubSeq(s, i, i + Len(sub) - 1) = sub

IsSpace(c) == c \in {" ", "\n", "\t"}
IsDigit(c) == c \in {"0", "1", "2", "3", "4", "5", "6", "7", "8", "9"}

DigitVal(c) ==
  CASE c = "0" -> 0 [] c = "1" -> 1 [] c = "2" -> 2 [] c = "3" -> 3 [] c = "4" -> 4
    [] c = "5" -> 5 [] c = "6" -> 6 [] c = "7" -> 7 [] c = "8" -> 8 [] c = "9" -> 9

DigitChar(d) ==
  CASE d = 0 -> "0" [] d = 1 -> "1" [] d = 2 -> "2" [] d = 3 -> "3" [] d = 4 -> "4"
    [] d = 5 -> "5" [] d = 6 -> "6" [] d = 7 -> "7" [] d = 8 -> "8" [] d = 9 -> "9"

\* String(n) for a natural number n
RECURSIVE NumToString(_)
NumToString(n) ==
  IF n < 10 THEN DigitChar(n) ELSE NumToString(n \div 10) \o DigitChar(n % 10)

\* s.split(/\s+/): the maximal runs of non-space characters, in order (a
\* leading or trailing run of spaces yields an empty first or last piece).
RECURSIVE SplitFrom(_, _, _)
SplitFrom(s, i, cur) ==
  IF i > Len(s) THEN <<cur>>
  ELSE IF IsSpace(CharAt(s, i))
       THEN IF i > 1 /\ IsSpace(CharAt(s, i - 1))
            THEN SplitFrom(s, i + 1, cur)
            ELSE <<cur>> \o SplitFrom(s, i + 1, "")
       ELSE SplitFrom(s, i + 1, cur \o CharAt(s, i))

splitWhitespace(s) == SplitFrom(s, 1, "")

\* s.match(/(\d+)/): the first maximal run of digits, None when there is none.
RECURSIVE DigitRun(_, _)
DigitRun(s, i) ==
  IF i > Len(s) \/ ~IsDigit(CharAt(s, i)) THEN "" ELSE CharAt(s, i) \o DigitRun(s, i + 1)

matchDigits(s) ==
  LET starts == {i \in 1..Len(s) : IsDigit(CharAt(s, i))}
  IN IF starts = {} THEN None
     ELSE Some(DigitRun(s, CHOOSE i \in starts : \A j \in starts : i <= j))

\* parseInt of a string of digits
RECURSIVE parseInt(_)
parseInt(d) ==
  IF d = "" THEN 0
  ELSE 10 * parseInt(SubSeq(d, 1, Len(d) - 1)) + DigitVal(CharAt(d, Len(d)))

\* [...s].join(' '): the characters of s separated by single spaces
RECURSIVE SpreadJoin(_)
SpreadJoin(s) ==
  IF Len(s) <= 1 THEN s ELSE CharAt(s, 1) \o " " \o SpreadJoin(SubSeq(s, 2, Len(s)))

\* parts.join(sep)
RECURSIVE join(_, _)
join(parts, sep) ==
  IF parts = <<>> THEN ""
  ELSE IF Len(parts) = 1 THEN parts[1]
  ELSE parts[1] \o sep \o join(Tail(parts), sep)


(***************************************************************************)
(* Criterion scorers (proposalEvaluationService.ts).  The reasoning texts  *)
(* are derived from the other fields and are left out.                     *)
(***************************************************************************)

\* A tail that starts from 100 instead of 70.
MutUnderBudgetTail(absN, D) ==
  IF 2 * 100 * D - absN <= 30 * 2 * D THEN 30 ELSE MathRound(2 * 100 * D - absN, 2 * D)

\* Math.round(Math.max(30, 70 - absDeviation * 0.5)), absDeviation = absN / D
underBudgetTail(absN, D) ==
  IF 2 * 70 * D - absN <= 30 * 2 * D THEN 30 ELSE MathRound(2 * 70 * D - absN, 2 * D)

\* Math.round(Math.max(0, 40 - absDeviation * 0.3))
overBudgetTail(absN, D) ==
  IF 10 * 40 * D - 3 * absN <= 0 THEN 0 ELSE MathRound(10 * 40 * D - 3 * absN, 10 * D)

\* The score for deviation = N / D percent (D > 0).
priceScore(N, D) ==
  LET absN == Abs(N)
  IN IF N < 0
     THEN IF absN <= 5 * D THEN 100
          ELSE IF absN <= 10 * D THEN 95
          ELSE IF absN <= 20 * D THEN 85
          ELSE IF absN <= 30 * D THEN 75
          ELSE IF absN <= 50 * D THEN 60
          ELSE underBudgetTail(absN, D)
     ELSE IF absN <= 5 * D THEN 95
          ELSE IF absN <= 10 * D THEN 85
          ELSE IF absN <= 20 * D THEN 70
          ELSE IF absN <= 30 * D THEN 50
          ELSE IF absN <= 50 * D THEN 30
          ELSE overBudgetTail(absN, D)

\* deviation = ((proposalPrice - budget) / budget) * 100 as the fraction
\* DevNum / DevDen with a positive denominator.
DevNum(p, b) == IF b > 0 THEN (p - b) * 100 ELSE (b - p) * 100
DevDen(b) == Abs(b)

\* The deviation field is in hundredths of a percent
\* (Math.round(deviation * 100) / 100).
evaluatePrice(proposalPrice, budget) ==
  IF ~TruthyNum(proposalPrice)
  THEN [score |-> 0, matchesBudget |-> FALSE, deviation |-> 0]
  ELSE IF ~TruthyNum(budget)
  THEN [score |-> 80, matchesBudget |-> TRUE, deviation |-> 0]
  ELSE LET N == DevNum(Val(proposalPrice), Val(budget))
           D == DevDen(Val(budget))
       IN [score |-> priceScore(N, D),
           matchesBudget |-> N <= 10 * D,
           deviation |-> MathRound(N * 100, D)]

\* The neutral rule tried before the missing-field rule.
MutEvaluateDelivery(proposalDeliveryDays, requiredDeliveryDays) ==
  IF ~TruthyNum(requiredDeliveryDays)
  THEN [score |-> 80, meetsDeadline |-> TRUE, daysDifference |-> None]
  ELSE [score |-> 0, meetsDeadline |-> FALSE, daysDifference |-> None]

evaluateDelivery(proposalDeliveryDays, requiredDeliveryDays) ==
  IF ~TruthyNum(proposalDeliveryDays)
  THEN [score |-> 0, meetsDeadline |-> FALSE, daysDifference |-> None]
  ELSE IF ~TruthyNum(requiredDeliveryDays)
  THEN [score |-> 80, meetsDeadline |-> TRUE, daysDifference |-> None]
  ELSE LET daysDifference == Val(proposalDeliveryDays) - Val(requiredDeliveryDays)
           score ==
             IF daysDifference <= 0
             THEN Max(90, Min(100, 100 - Abs(daysDifference) * 2))
             ELSE IF daysDifference <= 7 THEN 75
             ELSE IF daysDifference <= 14 THEN 60
             ELSE IF daysDifference <= 30 THEN 40
             ELSE IF 300 - daysDifference <= 0 THEN 0
             ELSE MathRound(300 - daysDifference, 10)
       IN [score |-> score,
           meetsDeadline |-> daysDifference <= 0,
           daysDifference |-> Some(daysDifference)]

\* `${ip.item} ${ip.quantity || ''}`
ItemPriceText(ip) ==
  ip.item \o " " \o (IF TruthyNum(ip.quantity) THEN NumToString(Val(ip.quantity)) ELSE "")

RECURSIVE ItemPriceTexts(_)
ItemPriceTexts(ips) ==
  IF ips = <<>> THEN <<>> ELSE <<ItemPriceText(Head(ips))>> \o ItemPriceTexts(Tail(ips))

\* The searchable text of matchItems.  The joined item text is spread into
\* the array literal, so its characters become separate array elements.
matchItemsText(proposalItemPrices, proposalNotes, rawEmail) ==
  LET itemText == IF proposalItemPrices = None THEN ""
                  ELSE join(ItemPriceTexts(Val(proposalItemPrices)), " ")
      notesText == IF TruthyStr(proposalNotes) THEN Val(proposalNotes) ELSE ""
      rawText == IF TruthyStr(rawEmail) THEN Val(rawEmail) ELSE ""
      tailText == notesText \o " " \o rawText
  IN toLowerCase(IF itemText = "" THEN tailText
                 ELSE SpreadJoin(itemText) \o " " \o tailText)

\* keywords.some(k => text.includes(k) && k.length > 3)
someKeywordIn(keywords, text) ==
  \E i \in 1..Len(keywords) : includes(text, keywords[i]) /\ Len(keywords[i]) > 3

\* One entry of itemBreakdown, with the verdict of the item.
matchOneItem(rfpItem, proposalItemPrices, proposalText) ==
  LET itemNameLower == toLowerCase(rfpItem.name)
      ips == IF proposalItemPrices = None THEN <<>> ELSE Val(proposalItemPrices)
      hits == {i \in 1..Len(ips) :
                 \/ includes(toLowerCase(ips[i].item), itemNameLower)
                 \/ includes(itemNameLower, toLowerCase(ips[i].item))}
      found == hits # {}
      matching == ips[CHOOSE i \in hits : \A j \in hits : i <= j]
      fuzzyMatch == includes(proposalText, itemNameLower)
      hasQuantity == TruthyNum(rfpItem.quantity)
      hasSpecs == TruthyStr(rfpItem.specifications)
      matchesQuantity ==
        IF found
        THEN IF hasQuantity THEN matching.quantity = rfpItem.quantity ELSE TRUE
        ELSE ~hasQuantity \/ fuzzyMatch
      specificationsMatch ==
        IF hasSpecs
        THEN someKeywordIn(splitWhitespace(toLowerCase(Val(rfpItem.specifications))), proposalText)
        ELSE TRUE
      itemMatch == found \/ fuzzyMatch
  IN [itemName |-> rfpItem.name,
      requiredQuantity |-> rfpItem.quantity,
      proposedQuantity |-> IF found THEN matching.quantity ELSE None,
      matchesQuantity |-> matchesQuantity,
      specificationsMatch |-> specificationsMatch,
      matched |-> itemMatch /\ (matchesQuantity \/ ~hasQuantity)
                            /\ (specificationsMatch \/ ~hasSpecs)]

\* score, counts and itemBreakdown from the verdicts of the items
itemsSummary(verdicts) ==
  [score |-> MathRound(Cardinality({i \in 1..Len(verdicts) : verdicts[i].matched}) * 100,
                       Len(verdicts)),
   itemsMatched |-> Cardinality({i \in 1..Len(verdicts) : verdicts[i].matched}),
   itemsTotal |-> Len(verdicts),
   itemBreakdown |-> [i \in 1..Len(verdicts) |->
      [itemName |-> verdicts[i].itemName,
       requiredQuantity |-> verdicts[i].requiredQuantity,
       proposedQuantity |-> verdicts[i].proposedQuantity,
       matchesQuantity |-> verdicts[i].matchesQuantity,
       specificationsMatch |-> verdicts[i].specificationsMatch]]]

matchItems(rfpItems, proposalItemPrices, proposalNotes, rawEmail) ==
  IF rfpItems = <<>>
  THEN [score |-> 100, itemsMatched |-> 0, itemsTotal |-> 0, itemBreakdown |-> <<>>]
  ELSE itemsSummary([i \in 1..Len(rfpItems) |->
         matchOneItem(rfpItems[i], proposalItemPrices,
                      matchItemsText(proposalItemPrices, proposalNotes, rawEmail))])

PaymentKeywords == <<"net", "days", "30", "60", "90", "advance", "upon delivery", "installment">>

evaluatePaymentTerms(proposalTerms, requiredTerms) ==
  IF ~TruthyStr(proposalTerms) THEN [score |-> 50, matches |-> FALSE]
  ELSE IF ~TruthyStr(requiredTerms) THEN [score |-> 80, matches |-> TRUE]
  ELSE LET proposalLower == toLowerCase(Val(proposalTerms))
           requiredLower == toLowerCase(Val(requiredTerms))
           proposalKeywords == {i \in 1..Len(PaymentKeywords) : includes(proposalLower, PaymentKeywords[i])}
           requiredKeywords == {i \in 1..Len(PaymentKeywords) : includes(requiredLower, PaymentKeywords[i])}
           matches == IF requiredKeywords # {}
                      THEN requiredKeywords \cap proposalKeywords # {}
                      ELSE includes(proposalLower, requiredLower) \/ includes(requiredLower, proposalLower)
       IN [score |-> IF matches THEN 100 ELSE 60, matches |-> matches]

evaluateWarranty(proposalWarranty, requiredWarranty) ==
  IF ~TruthyStr(proposalWarranty) THEN [score |-> 50, meetsRequirement |-> FALSE]
  ELSE IF ~TruthyStr(requiredWarranty) THEN [score |-> 80, meetsRequirement |-> TRUE]
  ELSE LET proposalMatch == matchDigits(Val(proposalWarranty))
           requiredMatch == matchDigits(Val(requiredWarranty))
       IN IF proposalMatch # None /\ requiredMatch # None
          THEN LET meetsRequirement == parseInt(Val(proposalMatch)) >= parseInt(Val(requiredMatch))
               IN [score |-> IF meetsRequirement THEN 100 ELSE 50,
                   meetsRequirement |-> meetsRequirement]
          ELSE LET pl == toLowerCase(Val(proposalWarranty))
                   rl == toLowerCase(Val(requiredWarranty))
                   matches == includes(pl, rl) \/ includes(rl, pl)
               IN [score |-> IF matches THEN 100 ELSE 60, meetsRequirement |-> matches]

\* completeness is in thousandths: Math.round(completeness * 100)
evaluateCompleteness(completeness) ==
  IF completeness = None THEN [score |-> 50] ELSE [score |-> MathRound(Val(completeness), 10)]

\* requirement.toLowerCase().split(/\s+/).filter(w => w.length > 3), some word
\* of which occurs in the proposal text
otherRequirementMatch(requirement, proposalText) ==
  LET words == splitWhitespace(toLowerCase(requirement))
  IN \E i \in 1..Len(words) : Len(words[i]) > 3 /\ includes(proposalText, words[i])

RECURSIVE missingRequirements(_, _)
missingRequirements(reqs, proposalText) ==
  IF reqs = <<>> THEN <<>>
  ELSE (IF otherRequirementMatch(Head(reqs), proposalText) THEN <<>> ELSE <<Head(reqs)>>)
       \o missingRequirements(Tail(reqs), proposalText)

evaluateOtherRequirements(proposalNotes, rawEmail, otherRequirements) ==
  IF otherRequirements = <<>>
  THEN [score |-> 100, matches |-> 0, total |-> 0, missing |-> <<>>]
  ELSE LET proposalText ==
             toLowerCase((IF TruthyStr(proposalNotes) THEN Val(proposalNotes) ELSE "")
                         \o " " \o (IF TruthyStr(rawEmail) THEN Val(rawEmail) ELSE ""))
           missing == missingRequirements(otherRequirements, proposalText)
           matches == Len(otherRequirements) - Len(missing)
       IN [score |-> MathRound(matches * 100, Len(otherRequirements)),
           matches |-> matches,
           total |-> Len(otherRequirements),
           missing |-> missing]

\* Weights whose requirements share was raised without lowering another.
MutWeights ==
  [price |-> 25, delivery |-> 20, requirements |-> 35, paymentTerms |-> 5,
   warranty |-> 10, completeness |-> 5, otherRequirements |-> 5]

\* The fixed weights, in hundredths.
Weights ==
  [price |-> 25, delivery |-> 20, requirements |-> 30, paymentTerms |-> 5,
   warranty |-> 10, completeness |-> 5, otherRequirements |-> 5]

WeightSum(w) ==
  w.price + w.delivery + w.requirements + w.paymentTerms + w.warranty
    + w.completeness + w.otherRequirements

calculateOverallScore(criteria) ==
  MathRound(criteria.price.score * Weights.price
            + criteria.delivery.score * Weights.delivery
            + criteria.requirements.score * Weights.requirements
            + criteria.paymentTerms.score * Weights.paymentTerms
            + criteria.warranty.score * Weights.warranty
            + criteria.completeness.score * Weights.completeness
            + criteria.otherRequirements.score * Weights.otherRequirements, 100)

generateFeedback(criteria) ==
  LET price == criteria.price
      delivery == criteria.delivery
      reqs == criteria.requirements
      priceLow == price.score < 90 /\ price.score < 60
      deliveryLow == delivery.score < 90 /\ delivery.score < 60
      reqsLow == reqs.score < 90 /\ reqs.score < 70
      completenessLow == criteria.completeness.score < 80 /\ criteria.completeness.score < 60
  IN [strengths |->
        (IF price.score >= 90 THEN <<"Excellent price competitiveness">> ELSE <<>>)
        \o (IF delivery.score >= 90 THEN <<"Delivery timeline meets or exceeds requirements">> ELSE <<>>)
        \o (IF reqs.score >= 90 THEN <<"All required items are addressed">> ELSE <<>>)
        \o (IF criteria.paymentTerms.score = 100 THEN <<"Payment terms align with requirements">> ELSE <<>>)
        \o (IF criteria.warranty.score = 100 THEN <<"Warranty meets or exceeds requirements">> ELSE <<>>)
        \o (IF criteria.completeness.score >= 80 THEN <<"Comprehensive and detailed proposal">> ELSE <<>>),
      weaknesses |->
        (IF priceLow
         THEN <<"Price significantly " \o (IF price.deviation > 0 THEN "over" ELSE "under") \o " budget">>
         ELSE <<>>)
        \o (IF deliveryLow THEN <<"Delivery timeline may not meet requirements">> ELSE <<>>)
        \o (IF reqsLow
            THEN <<NumToString(reqs.itemsTotal - reqs.itemsMatched) \o " required item(s) not properly addressed">>
            ELSE <<>>)
        \o (IF criteria.paymentTerms.score # 100 /\ ~criteria.paymentTerms.matches
            THEN <<"Payment terms may not align with requirements">> ELSE <<>>)
        \o (IF criteria.warranty.score # 100 /\ ~criteria.warranty.meetsRequirement
            THEN <<"Warranty may not meet requirements">> ELSE <<>>)
        \o (IF completenessLow THEN <<"Proposal may lack important details">> ELSE <<>>)
        \o (IF criteria.otherRequirements.missing # <<>>
            THEN <<NumToString(Len(criteria.otherRequirements.missing)) \o " other requirement(s) not addressed">>
            ELSE <<>>),
      concerns |->
        (IF priceLow /\ Abs(price.deviation) > 30 * 100
         THEN <<"Price deviation may be a concern">> ELSE <<>>)
        \o (IF deliveryLow /\ TruthyNum(delivery.daysDifference) /\ Val(delivery.daysDifference) > 14
            THEN <<"Significant delivery delay">> ELSE <<>>)
        \o (IF reqsLow THEN <<"Missing required items may disqualify this proposal">> ELSE <<>>)
        \o (IF completenessLow THEN <<"Incomplete proposal may require clarification">> ELSE <<>>)]

\* The fields parsedData can carry; absent ones are None.
EmptyParsedData ==
  [totalPrice |-> None, itemPrices |-> None, deliveryDays |-> None, paymentTerms |-> None,
   warranty |-> None, notes |-> None, completeness |-> None, evaluation |-> None]

\* proposal: the object handed to evaluateProposal; rfp: {budget, requirements}
evaluateCriteria(proposal, rfp) ==
  LET parsedData == IF proposal.parsedData = None THEN EmptyParsedData ELSE Val(proposal.parsedData)
      totalPrice == Coalesce(proposal.totalPrice, parsedData.totalPrice)
      deliveryDays == Coalesce(proposal.deliveryDays, parsedData.deliveryDays)
      paymentTerms == Coalesce(proposal.paymentTerms, parsedData.paymentTerms)
      warranty == Coalesce(proposal.warranty, parsedData.warranty)
      notes == Coalesce(proposal.notes, parsedData.notes)
      completeness == Coalesce(proposal.completeness, parsedData.completeness)
  IN [price |-> evaluatePrice(totalPrice, rfp.budget),
      delivery |-> evaluateDelivery(deliveryDays, NumOrUndefined(rfp.requirements.deliveryDays)),
      requirements |-> matchItems(rfp.requirements.items, parsedData.itemPrices, notes, proposal.rawEmail),
      paymentTerms |-> evaluatePaymentTerms(paymentTerms, StrOrUndefined(rfp.requirements.paymentTerms)),
      warranty |-> evaluateWarranty(warranty, StrOrUndefined(rfp.requirements.warranty)),
      completeness |-> evaluateCompleteness(completeness),
      otherRequirements |-> evaluateOtherRequirements(notes, proposal.rawEmail,
                                                      rfp.requirements.otherRequirements)]

\* the evaluation made of the criteria
evaluationOf(vendorId, criteria) ==
  LET feedback == generateFeedback(criteria)
  IN [vendorId |-> vendorId,
      overallScore |-> calculateOverallScore(criteria),
      criteria |-> criteria,
      strengths |-> feedback.strengths,
      weaknesses |-> feedback.weaknesses,
      concerns |-> feedback.concerns]

evaluateProposal(proposal, rfp) == evaluationOf(proposal.vendor, evaluateCriteria(proposal, rfp))

\* An insertion before the evaluations that score the same.
RECURSIVE MutInsertByScore(_, _)
MutInsertByScore(sorted, e) ==
  IF sorted = <<>> THEN <<e>>
  ELSE IF Head(sorted).overallScore > e.overallScore
       THEN <<Head(sorted)>> \o MutInsertByScore(Tail(sorted), e)
       ELSE <<e>> \o sorted

\* evaluations.sort((a, b) => b.overallScore - a.overallScore): a stable
\* insertion of each evaluation after the ones that score at least as much.
RECURSIVE insertByScore(_, _)
insertByScore(sorted, e) ==
  IF sorted = <<>> THEN <<e>>
  ELSE IF Head(sorted).overallScore >= e.overallScore
       THEN <<Head(sorted)>> \o insertByScore(Tail(sorted), e)
       ELSE <<e>> \o sorted

RECURSIVE sortByScore(_)
sortByScore(evals) ==
  IF evals = <<>> THEN <<>>
  ELSE insertByScore(sortByScore(SubSeq(evals, 1, Len(evals) - 1)), evals[Len(evals)])

evaluateProposals(proposals, rfp) ==
  sortByScore([i \in 1..Len(proposals) |-> evaluateProposal(proposals[i], rfp)])

(***************************************************************************)
(* Text helpers of the routes                                              *)
(***************************************************************************)
RECURSIVE trimStart(_)
trimStart(s) ==
  IF s # "" /\ IsSpace(CharAt(s, 1)) THEN trimStart(SubSeq(s, 2, Len(s))) ELSE s

RECURSIVE trimEnd(_)
trimEnd(s) ==
  IF s # "" /\ IsSpace(CharAt(s, Len(s))) THEN trimEnd(SubSeq(s, 1, Len(s) - 1)) ELSE s

trim(s) == trimEnd(trimStart(s))

\* s.replace(/<[^>]*>/g, ''): every "<" up to the next ">" is removed
RECURSIVE stripTags(_)
stripTags(s) ==
  IF s = "" THEN ""
  ELSE IF CharAt(s, 1) = "<"
       THEN LET closes == {i \in 2..Len(s) : CharAt(s, i) = ">"}
            IN IF closes = {} THEN "<" \o stripTags(SubSeq(s, 2, Len(s)))
               ELSE stripTags(SubSeq(s, (CHOOSE i \in closes : \A j \in closes : i <= j) + 1, Len(s)))
       ELSE CharAt(s, 1) \o stripTags(SubSeq(s, 2, Len(s)))

\* sanitizeString of an optional string
sanitizeString(input) ==
  IF ~TruthyStr(input) THEN None ELSE Some(stripTags(trim(Val(input))))

\* subject.split(':')[0]
beforeColon(s) ==
  LET colons == {i \in 1..Len(s) : CharAt(s, i) = ":"}
  IN IF colons = {} THEN s
     ELSE SubSeq(s, 1, (CHOOSE i \in colons : \A j \in colons : i <= j) - 1)

(***************************************************************************)
(* State                                                                   *)
(***************************************************************************)
VARIABLES
  rfpsTable,       \* RFP rows by id (None: no such row)
  proposalsTable,  \* the set of Proposal rows
  now,             \* the value the next new Date() can return
  compareReq,      \* the GET /compare/:rfpId request in flight, or its response
  pollerMsg,       \* the e-mail messages being processed by processEmailMessage
  evaluateReq,     \* the evaluate / evaluate-all request in flight
  httpStatus,      \* status of the last response of a proposal or RFP route
  requestsLeft,    \* how many more requests and messages are admitted
  staleCache,      \* history: RFPs whose stored cache misses an earlier change
  evalCall,        \* the arguments of one evaluateProposal call
  evalOut,         \* its result
  priceCall,       \* a budget and two prices handed to evaluatePrice
  priceOut,        \* the two results
  rankCall,        \* the arguments of one evaluateProposals call
  rankOut,         \* its result
  draftCall,       \* the arguments of one normalizeRfpDraft call
  draftOut,        \* its result, and the result of merging {} into it
  agentState,      \* agentState of the conversation
  conversationStatus, \* status of the conversation
  sentEmails,      \* the SentEmail rows
  turnsLeft,       \* how many more conversation requests are admitted
  response,        \* the last response of a conversation request
  turn,            \* the message requests of the conversation in flight
  poll,            \* the inbox poller: isPolling and where pollInbox stands
  mail             \* one sendRFPEmail call: retries left and its attempts

workflowVars ==
  <<rfpsTable, proposalsTable, now, compareReq, pollerMsg, evaluateReq, httpStatus,
    requestsLeft, staleCache>>
scoringVars == <<evalCall, evalOut, priceCall, priceOut, rankCall, rankOut>>
conversationVars ==
  <<draftCall, draftOut, agentState, conversationStatus, sentEmails, turnsLeft, response>>
serviceVars == <<turn, poll, mail>>
vars == <<workflowVars, scoringVars, conversationVars, serviceVars>>

(***************************************************************************)
(* Scoring calls: evaluateProposal and evaluatePrice applied to inputs     *)
(* drawn from bounded sets.                                                *)
(***************************************************************************)
MaxPriceStep == 50

\* prices 0, 5, ..., 5 * MaxPriceStep against these budgets
PairPrices == {5 * k : k \in 0..MaxPriceStep}
PairBudgets == {100, 7}

NoRequirements ==
  [items |-> <<>>, deliveryDays |-> None, paymentTerms |-> None, warranty |-> None,
   otherRequirements |-> <<>>]

LaptopRequirements ==
  [items |-> <<[name |-> "Laptop", quantity |-> Some(20), specifications |-> Some("16GB memory")],
               [name |-> "Dock", quantity |-> None, specifications |-> None]>>,
   deliveryDays |-> Some(10),
   paymentTerms |-> Some("Net 30 days"),
   warranty |-> Some("3 years"),
   otherRequirements |-> <<"ISO certified supplier", "on-site setup">>]

ChairRequirements ==
  [items |-> <<[name |-> "Chair", quantity |-> Some(40), specifications |-> None]>>,
   deliveryDays |-> Some(0),
   paymentTerms |-> Some("cash on receipt"),
   warranty |-> Some("Lifetime warranty"),
   otherRequirements |-> <<>>]

EvalRfps ==
  {[budget |-> None, requirements |-> NoRequirements],
   [budget |-> Some(100), requirements |-> LaptopRequirements],
   [budget |-> Some(7), requirements |-> ChairRequirements]}

EvalPrices == {None, Some(0), Some(40), Some(97), Some(130), Some(400)}
EvalDeliveryDays == {None, Some(0), Some(10), Some(24), Some(400)}
EvalPaymentTerms == {None, Some("Net 30"), Some("cash")}
EvalWarranties == {None, Some("2 years"), Some("lifetime")}
EvalCompleteness == {None, Some(5), Some(795), Some(1000), Some(1500)}

\* What the reply says beyond the scalar fields: notes, raw text, line items,
\* and scalar fields present only inside parsedData.
EvalTexts ==
  {[notes |-> None, rawEmail |-> None, parsedData |-> None],
   [notes |-> Some("ISO certified, 16GB memory"),
    rawEmail |-> Some("We offer 20 Laptop units and 40 chair sets"),
    parsedData |-> Some([EmptyParsedData EXCEPT
       !.itemPrices = Some(<<[item |-> "Laptop Pro", price |-> 90, quantity |-> Some(20)]>>)])],
   [notes |-> None,
    rawEmail |-> Some("dock included"),
    parsedData |-> Some([EmptyParsedData EXCEPT
       !.totalPrice = Some(105), !.deliveryDays = Some(12), !.paymentTerms = Some("30 days"),
       !.warranty = Some("5 year"), !.completeness = Some(600),
       !.itemPrices = Some(<<[item |-> "laptop", price |-> 90, quantity |-> Some(10)]>>)])]}

EvalProposals ==
  {[id |-> "", vendor |-> "v1", totalPrice |-> pr, deliveryDays |-> dd, paymentTerms |-> pt,
    warranty |-> w, notes |-> t.notes, completeness |-> c, rawEmail |-> t.rawEmail,
    parsedData |-> t.parsedData] :
     pr \in EvalPrices, dd \in EvalDeliveryDays, pt \in EvalPaymentTerms,
     w \in EvalWarranties, c \in EvalCompleteness, t \in EvalTexts}

\* Lists handed to evaluateProposals: up to MaxProposals proposals of
\* distinct vendors in every order of these prices, equal prices included.
MaxProposals == 3
RankPrices == {None, Some(40), Some(97), Some(130)}
RankLists ==
  UNION {{[i \in 1..n |->
             [id |-> "", vendor |-> "v" \o NumToString(i), totalPrice |-> prices[i],
              deliveryDays |-> None, paymentTerms |-> None, warranty |-> None, notes |-> None,
              completeness |-> None, rawEmail |-> None, parsedData |-> None]] :
            prices \in [1..n -> RankPrices]} : n \in 0..MaxProposals}

ScoringIdle ==
  /\ evalCall = None
  /\ evalOut = None
  /\ priceCall = None
  /\ priceOut = None
  /\ rankCall = None
  /\ rankOut = None

ScoringInit ==
  \/ /\ evalCall \in {Some([proposal |-> p, rfp |-> r]) : p \in EvalProposals, r \in EvalRfps}
     /\ evalOut = None
     /\ priceCall = None
     /\ priceOut = None
     /\ rankCall = None
     /\ rankOut = None
  \/ /\ evalCall = None
     /\ evalOut = None
     /\ priceCall = None
     /\ priceOut = None
     /\ rankCall \in {Some([proposals |-> l, rfp |-> r]) : l \in RankLists, r \in EvalRfps}
     /\ rankOut = None
  \/ /\ evalCall = None
     /\ evalOut = None
     /\ priceCall \in {Some([budget |-> b, priceA |-> a, priceB |-> c]) :
                         b \in PairBudgets, a \in PairPrices, c \in PairPrices}
     /\ priceOut = None
     /\ rankCall = None
     /\ rankOut = None

Evaluate ==
  /\ evalCall # None
  /\ evalOut = None
  /\ evalOut' = Some(evaluateProposal(Val(evalCall).proposal, Val(evalCall).rfp))
  /\ UNCHANGED <<evalCall, priceCall, priceOut, rankCall, rankOut, workflowVars, conversationVars, serviceVars>>

EvaluatePrices ==
  /\ priceCall # None
  /\ priceOut = None
  /\ priceOut' = Some([resultA |-> evaluatePrice(Some(Val(priceCall).priceA), Some(Val(priceCall).budget)),
                       resultB |-> evaluatePrice(Some(Val(priceCall).priceB), Some(Val(priceCall).budget))])
  /\ UNCHANGED <<evalCall, evalOut, priceCall, rankCall, rankOut, workflowVars, conversationVars, serviceVars>>

EvaluateList ==
  /\ rankCall # None
  /\ rankOut = None
  /\ rankOut' = Some(evaluateProposals(Val(rankCall).proposals, Val(rankCall).rfp))
  /\ UNCHANGED <<evalCall, evalOut, priceCall, priceOut, rankCall, workflowVars, conversationVars, serviceVars>>

NextScoring == Evaluate \/ EvaluatePrices \/ EvaluateList

(***************************************************************************)
(* Tables.  A Proposal row:                                                *)
(*   [id, rfpId, vendorId, rawEmail, parsedData, totalPrice, deliveryDays, *)
(*    paymentTerms, warranty, notes, completeness, updatedAt]              *)
(* An RFP row:                                                             *)
(*   [title, description, budget, deadline, requirements, status,          *)
(*    comparisonCache, comparisonCacheUpdatedAt, createdAt]                *)
(* Message ids, createdAt of proposals and updatedAt of RFPs are written   *)
(* but never read by the modelled code and are left out.  Rows are never   *)
(* deleted here.                                                           *)
(***************************************************************************)
MaxClock == 2
MaxRequests == 3

RfpIds == {"r1", "r2"}

vendorsTable ==
  {[id |-> "v1", name |-> "Acme", email |-> "sales@acme.test"],
   [id |-> "v2", name |-> "Globex", email |-> "bids@globex.test"]}

VendorIds == {v.id : v \in vendorsTable}

ProposalsOf(r) == {p \in proposalsTable : p.rfpId = r}

\* The rows of a query result as a list (by id).
RECURSIVE RowsById(_)
RowsById(rows) ==
  IF rows = {} THEN <<>>
  ELSE LET first == CHOOSE p \in rows : \A q \in rows : p.id <= q.id
       IN <<first>> \o RowsById(rows \ {first})

\* randomUUID(): an id no row has
NewProposalId == Cardinality(proposalsTable) + 1

\* new Date(): the clock may have advanced since it was last read
Dates == {t \in {now, now + 1} : t <= MaxClock}

\* An insert that ignores the unique key over (rfpId, vendorId).
MutInsertProposal(row) ==
  IF rfpsTable[row.rfpId] = None \/ row.vendorId \notin VendorIds
  THEN [ok |-> FALSE, rows |-> proposalsTable]
  ELSE [ok |-> TRUE, rows |-> proposalsTable \cup {row}]

\* db.insert(proposalsTable): rejected by a foreign key or by the unique
\* key Proposal_rfpId_vendorId_key, and then nothing is stored.
insertProposal(row) ==
  IF \/ rfpsTable[row.rfpId] = None
     \/ row.vendorId \notin VendorIds
     \/ \E q \in proposalsTable : q.rfpId = row.rfpId /\ q.vendorId = row.vendorId
  THEN [ok |-> FALSE, rows |-> proposalsTable]
  ELSE [ok |-> TRUE, rows |-> proposalsTable \cup {row}]

\* db.update(proposalsTable).set(...).where(eq(id, ...))
\* (set: for each stored row, the row it becomes when it is the one updated)
updateProposal(id, set) ==
  {IF p.id = id THEN set[p] ELSE p : p \in proposalsTable}

\* The proposal object the routes and the poller hand to evaluateProposal.
proposalForEvaluation(row) ==
  [id |-> row.id, vendor |-> row.vendorId, totalPrice |-> row.totalPrice,
   deliveryDays |-> row.deliveryDays, paymentTerms |-> row.paymentTerms,
   warranty |-> row.warranty, notes |-> row.notes, completeness |-> row.completeness,
   rawEmail |-> row.rawEmail, parsedData |-> Some(row.parsedData)]

\* The part of an evaluation that is stored inside parsedData.
embeddedEvaluation(e) ==
  [overallScore |-> e.overallScore, criteria |-> e.criteria, strengths |-> e.strengths,
   weaknesses |-> e.weaknesses, concerns |-> e.concerns]

withEvaluation(parsedData, proposal, rfp) ==
  [parsedData EXCEPT !.evaluation =
     Some(embeddedEvaluation(evaluateProposal(proposal,
            [budget |-> rfp.budget, requirements |-> rfp.requirements])))]

\* compareProposals: the evaluations, best first (the text the language
\* model adds around them is not modelled).
compareProposals(rfp, proposals) ==
  [evaluations |->
     evaluateProposals([i \in 1..Len(proposals) |-> proposalForEvaluation(proposals[i])],
                       [budget |-> rfp.budget, requirements |-> rfp.requirements])]

\* rfp.proposals.reduce(...): the latest updatedAt, None for no proposals
RECURSIVE lastProposalUpdate(_)
lastProposalUpdate(proposals) ==
  IF proposals = <<>> THEN None
  ELSE LET latest == lastProposalUpdate(SubSeq(proposals, 1, Len(proposals) - 1))
           proposalUpdate == proposals[Len(proposals)].updatedAt
       IN IF latest = None THEN Some(proposalUpdate)
          ELSE IF proposalUpdate > Val(latest) THEN Some(proposalUpdate) ELSE latest

\* A validity test that forgets to compare the number of proposals.
MutCompareCacheValid(rfp, proposals) ==
  LET last == lastProposalUpdate(proposals)
  IN last = None \/ Val(rfp.comparisonCacheUpdatedAt) >= Val(last)

\* proposalCountMatches && cacheIsNewer, for a cache and timestamp that exist
compareCacheValid(rfp, proposals) ==
  LET cachedProposalCount == Len(Val(rfp.comparisonCache).evaluations)
      last == lastProposalUpdate(proposals)
      proposalCountMatches == cachedProposalCount = Len(proposals)
      cacheIsNewer == last = None \/ Val(rfp.comparisonCacheUpdatedAt) >= Val(last)
  IN proposalCountMatches /\ cacheIsNewer

(***************************************************************************)
(* The email poller: processEmailMessage, one process per message.  The    *)
(* steps are the awaited queries: the vendor and RFP lookup, the parsed    *)
(* reply and the lookup of an existing proposal, the update or insert,     *)
(* and the cache invalidation.                                             *)
(***************************************************************************)
Msgs == {"m1", "m2"}

\* The order of the messages of one search result.
Before(m, other) == m = "m1" /\ other = "m2"

IdleMsg ==
  [pc |-> "idle", vendorId |-> None, rfp |-> None, email |-> None, existing |-> None,
   outcome |-> "none"]

ReplyA ==
  [EmptyParsedData EXCEPT
     !.totalPrice = Some(97), !.deliveryDays = Some(10), !.paymentTerms = Some("Net 30"),
     !.warranty = Some("3 years"), !.notes = Some("ISO certified"), !.completeness = Some(900),
     !.itemPrices = Some(<<[item |-> "Laptop", price |-> 90, quantity |-> Some(20)]>>)]

ReplyB ==
  [EmptyParsedData EXCEPT
     !.totalPrice = Some(130), !.deliveryDays = Some(24), !.completeness = Some(400)]

\* from, subject, body, and what parseVendorResponse makes of the body
\* (None: it throws)
Emails ==
  {[from |-> f, subject |-> sub, body |-> "our offer", parsed |-> pd] :
     f \in {"sales@acme.test", "bids@globex.test", "info@nobody.test"},
     sub \in {"Re: RFP: Laptops", "Out of office"},
     pd \in {Some(ReplyB), None}}

hasKeyword(subject) ==
  \/ includes(toLowerCase(subject), "rfp")
  \/ includes(toLowerCase(subject), "proposal")
  \/ includes(toLowerCase(subject), "quote")

\* where: title LIKE %subjectPrefix% OR status = 'sent';
\* orderBy createdAt desc, limit 1
matchingRfps(subject) ==
  LET subjectPrefix == trim(beforeColon(subject))
      rows == {r \in RfpIds :
                 /\ rfpsTable[r] # None
                 /\ \/ includes(Val(rfpsTable[r]).title, subjectPrefix)
                    \/ Val(rfpsTable[r]).status = "sent"}
  IN {r \in rows : \A q \in rows : Val(rfpsTable[r]).createdAt >= Val(rfpsTable[q]).createdAt}

\* History: a compare request that has read r and not yet stored its
\* comparison misses the change now being applied to r.
markMissed(r) ==
  IF compareReq.pc = "computing" /\ compareReq.rfpId = r
  THEN [compareReq EXCEPT !.missed = TRUE]
  ELSE compareReq

MsgStart(m, email) ==
  /\ requestsLeft > 0
  /\ pollerMsg[m].pc \in {"idle", "done"}
  /\ \A other \in Msgs : pollerMsg[other].pc \in {"idle", "done"} => ~Before(other, m)
  /\ requestsLeft' = requestsLeft - 1
  /\ LET vendors == {v \in vendorsTable : v.email = email.from}
     IN IF ~hasKeyword(email.subject) \/ vendors = {} \/ matchingRfps(email.subject) = {}
        THEN pollerMsg' = [pollerMsg EXCEPT ![m] = [IdleMsg EXCEPT !.pc = "done", !.outcome = "skipped"]]
        ELSE \E r \in matchingRfps(email.subject), v \in vendors :
               pollerMsg' = [pollerMsg EXCEPT ![m] =
                 [IdleMsg EXCEPT !.pc = "parsing", !.vendorId = Some(v.id), !.email = Some(email),
                    !.rfp = Some([id |-> r, budget |-> Val(rfpsTable[r]).budget,
                                  requirements |-> Val(rfpsTable[r]).requirements])]]
  /\ UNCHANGED <<rfpsTable, proposalsTable, now, compareReq, evaluateReq, httpStatus,
                 staleCache, scoringVars, conversationVars, serviceVars>>

MsgParseFailed(m) ==
  /\ pollerMsg[m].pc = "parsing"
  /\ Val(pollerMsg[m].email).parsed = None
  /\ pollerMsg' = [pollerMsg EXCEPT ![m] = [IdleMsg EXCEPT !.pc = "done", !.outcome = "parse_failed"]]
  /\ UNCHANGED <<rfpsTable, proposalsTable, now, compareReq, evaluateReq, httpStatus,
                 requestsLeft, staleCache, scoringVars, conversationVars, serviceVars>>

MsgFindExisting(m) ==
  /\ pollerMsg[m].pc = "parsing"
  /\ Val(pollerMsg[m].email).parsed # None
  /\ LET st == pollerMsg[m]
         found == {p \in proposalsTable : p.rfpId = Val(st.rfp).id /\ p.vendorId = Val(st.vendorId)}
     IN IF found = {}
        THEN pollerMsg' = [pollerMsg EXCEPT ![m].pc = "writing", ![m].existing = None]
        ELSE \E p \in found :
               pollerMsg' = [pollerMsg EXCEPT ![m].pc = "writing", ![m].existing = Some(p.id)]
  /\ UNCHANGED <<rfpsTable, proposalsTable, now, compareReq, evaluateReq, httpStatus,
                 requestsLeft, staleCache, scoringVars, conversationVars, serviceVars>>

\* proposalData of the message, stamped with t
pollerProposalData(st, id, t) ==
  LET email == Val(st.email)
      parsedData == Val(email.parsed)
      forEvaluation ==
        [id |-> IF st.existing = None THEN 0 ELSE Val(st.existing),
         vendor |-> Val(st.vendorId), totalPrice |-> parsedData.totalPrice,
         deliveryDays |-> parsedData.deliveryDays, paymentTerms |-> parsedData.paymentTerms,
         warranty |-> parsedData.warranty, notes |-> parsedData.notes,
         completeness |-> parsedData.completeness, rawEmail |-> Some(email.body),
         parsedData |-> Some(parsedData)]
  IN [id |-> id, rfpId |-> Val(st.rfp).id, vendorId |-> Val(st.vendorId),
      rawEmail |-> Some(email.body),
      parsedData |-> withEvaluation(parsedData, forEvaluation, Val(st.rfp)),
      totalPrice |-> parsedData.totalPrice, deliveryDays |-> parsedData.deliveryDays,
      paymentTerms |-> parsedData.paymentTerms, warranty |-> parsedData.warranty,
      notes |-> parsedData.notes, completeness |-> parsedData.completeness,
      updatedAt |-> t]

MsgWrite(m) ==
  /\ pollerMsg[m].pc = "writing"
  /\ \E t \in Dates :
       /\ now' = t
       /\ IF pollerMsg[m].existing # None
          THEN /\ proposalsTable' =
                    updateProposal(Val(pollerMsg[m].existing),
                                   [p \in proposalsTable |-> pollerProposalData(pollerMsg[m], p.id, t)])
               /\ pollerMsg' = [pollerMsg EXCEPT ![m].pc = "invalidating"]
               /\ compareReq' = markMissed(Val(pollerMsg[m].rfp).id)
          ELSE \E inserted \in {insertProposal(pollerProposalData(pollerMsg[m], NewProposalId, t))} :
                 IF inserted.ok
                 THEN /\ proposalsTable' = inserted.rows
                      /\ pollerMsg' = [pollerMsg EXCEPT ![m].pc = "invalidating"]
                      /\ compareReq' = markMissed(Val(pollerMsg[m].rfp).id)
                 ELSE /\ proposalsTable' = proposalsTable
                      /\ pollerMsg' = [pollerMsg EXCEPT ![m] =
                                         [IdleMsg EXCEPT !.pc = "done", !.outcome = "insert_failed"]]
                      /\ compareReq' = compareReq
  /\ UNCHANGED <<rfpsTable, evaluateReq, httpStatus, requestsLeft, staleCache, scoringVars, conversationVars, serviceVars>>

\* set({comparisonCache: null, comparisonCacheUpdatedAt: null})
clearCache(row) ==
  IF row = None THEN None
  ELSE Some([Val(row) EXCEPT !.comparisonCache = None, !.comparisonCacheUpdatedAt = None])

MsgInvalidate(m) ==
  /\ pollerMsg[m].pc = "invalidating"
  /\ LET st == pollerMsg[m]
         r == Val(st.rfp).id
     IN /\ rfpsTable' = [rfpsTable EXCEPT ![r] = clearCache(rfpsTable[r])]
        /\ staleCache' = staleCache \ {r}
        /\ pollerMsg' = [pollerMsg EXCEPT ![m] =
             [IdleMsg EXCEPT !.pc = "done",
                             !.outcome = IF st.existing = None THEN "created" ELSE "updated"]]
  /\ UNCHANGED <<proposalsTable, now, compareReq, evaluateReq, httpStatus, requestsLeft,
                 scoringVars, conversationVars, serviceVars>>

(***************************************************************************)
(* GET /compare/:rfpId (routes/ai.ts)                                      *)
(***************************************************************************)
IdleCompare ==
  [pc |-> "idle", rfpId |-> "", refresh |-> FALSE, rfp |-> None, proposals |-> <<>>,
   status |-> 0, cached |-> FALSE, regenerated |-> FALSE, missed |-> FALSE]

CompareRead(r, refresh) ==
  /\ requestsLeft > 0
  /\ compareReq.pc # "computing"
  /\ requestsLeft' = requestsLeft - 1
  /\ IF rfpsTable[r] = None
     THEN compareReq' = [IdleCompare EXCEPT !.pc = "done", !.rfpId = r, !.refresh = refresh, !.status = 404]
     ELSE IF ProposalsOf(r) = {}
     THEN compareReq' = [IdleCompare EXCEPT !.pc = "done", !.rfpId = r, !.refresh = refresh, !.status = 400]
     ELSE LET rfp == Val(rfpsTable[r])
              proposals == RowsById(ProposalsOf(r))
              present == rfp.comparisonCache # None /\ rfp.comparisonCacheUpdatedAt # None
              cached == ~refresh /\ present
              useCache == cached /\ compareCacheValid(rfp, proposals)
          IN IF useCache
             THEN compareReq' = [IdleCompare EXCEPT !.pc = "done", !.rfpId = r, !.refresh = refresh, !.status = 200,
                                                    !.cached = cached]
             ELSE compareReq' = [IdleCompare EXCEPT !.pc = "computing", !.rfpId = r, !.refresh = refresh,
                                                    !.rfp = Some(rfp), !.proposals = proposals,
                                                    !.cached = cached]
  /\ UNCHANGED <<rfpsTable, proposalsTable, now, pollerMsg, evaluateReq, httpStatus,
                 staleCache, scoringVars, conversationVars, serviceVars>>

CompareWrite ==
  /\ compareReq.pc = "computing"
  /\ \E t \in Dates :
       LET r == compareReq.rfpId
           comparison == compareProposals(Val(compareReq.rfp), compareReq.proposals)
       IN /\ now' = t
          /\ rfpsTable' = [rfpsTable EXCEPT ![r] =
               IF rfpsTable[r] = None THEN None
               ELSE Some([Val(rfpsTable[r]) EXCEPT !.comparisonCache = Some(comparison),
                                                   !.comparisonCacheUpdatedAt = Some(t)])]
          /\ staleCache' = IF compareReq.missed THEN staleCache \cup {r} ELSE staleCache \ {r}
          /\ compareReq' = [IdleCompare EXCEPT !.pc = "done", !.rfpId = r, !.status = 200,
                                               !.refresh = compareReq.refresh,
                                               !.cached = compareReq.cached, !.regenerated = TRUE]
  /\ UNCHANGED <<proposalsTable, pollerMsg, evaluateReq, httpStatus, requestsLeft, scoringVars, conversationVars, serviceVars>>

\* compareProposals throws (the text-generation call failed)
CompareFail ==
  /\ compareReq.pc = "computing"
  /\ compareReq' = [IdleCompare EXCEPT !.pc = "done", !.rfpId = compareReq.rfpId,
                                       !.refresh = compareReq.refresh, !.status = 500]
  /\ UNCHANGED <<rfpsTable, proposalsTable, now, pollerMsg, evaluateReq, httpStatus,
                 requestsLeft, staleCache, scoringVars, conversationVars, serviceVars>>

(***************************************************************************)
(* The proposal routes (routes/proposal.ts).  In a request body None is a  *)
(* field that was not sent; a number sent as 0 stands for every falsy      *)
(* value (0, null, the empty string).                                      *)
(***************************************************************************)
EmptyBody ==
  [rfpId |-> None, vendorId |-> None, parsedData |-> None, totalPrice |-> None,
   deliveryDays |-> None, paymentTerms |-> None, warranty |-> None, notes |-> None,
   completeness |-> None]

ProposalBodies ==
  {[EmptyBody EXCEPT !.totalPrice = Some(60)],
   [EmptyBody EXCEPT !.totalPrice = Some(110), !.deliveryDays = Some(0), !.paymentTerms = Some("cash"),
                     !.completeness = Some(1000),
                     !.parsedData = Some([EmptyParsedData EXCEPT !.warranty = Some("1 year")])]}

\* x ? parse(x) : null
valueOrNull(x) == IF TruthyNum(x) THEN x ELSE None

PostProposal(body) ==
  /\ requestsLeft > 0
  /\ requestsLeft' = requestsLeft - 1
  /\ IF ~TruthyStr(body.rfpId) \/ ~TruthyStr(body.vendorId)
     THEN /\ httpStatus' = [route |-> "POST /proposals", status |-> 400]
          /\ UNCHANGED <<proposalsTable, now>>
     ELSE \E t \in Dates :
            LET inserted == insertProposal(
                  [id |-> NewProposalId, rfpId |-> Val(body.rfpId), vendorId |-> Val(body.vendorId),
                   rawEmail |-> None,
                   parsedData |-> IF body.parsedData = None THEN EmptyParsedData ELSE Val(body.parsedData),
                   totalPrice |-> valueOrNull(body.totalPrice),
                   deliveryDays |-> valueOrNull(body.deliveryDays),
                   paymentTerms |-> body.paymentTerms, warranty |-> body.warranty,
                   notes |-> body.notes, completeness |-> valueOrNull(body.completeness),
                   updatedAt |-> t])
            IN /\ now' = t
               /\ proposalsTable' = inserted.rows
               /\ httpStatus' = [route |-> "POST /proposals",
                                 status |-> IF inserted.ok THEN 201 ELSE 500]
  /\ UNCHANGED <<rfpsTable, compareReq, pollerMsg, evaluateReq, staleCache, scoringVars, conversationVars, serviceVars>>

\* updateData of PUT /proposals/:id applied to a row, stamped with t
putProposalChange(p, body, t) ==
  [p EXCEPT
     !.parsedData = IF body.parsedData # None THEN Val(body.parsedData) ELSE @,
     !.totalPrice = IF body.totalPrice # None THEN valueOrNull(body.totalPrice) ELSE @,
     !.deliveryDays = IF body.deliveryDays # None THEN valueOrNull(body.deliveryDays) ELSE @,
     !.paymentTerms = IF body.paymentTerms # None THEN body.paymentTerms ELSE @,
     !.warranty = IF body.warranty # None THEN body.warranty ELSE @,
     !.notes = IF body.notes # None THEN body.notes ELSE @,
     !.completeness = IF body.completeness # None THEN valueOrNull(body.completeness) ELSE @,
     !.updatedAt = t]

PutProposal(id, body) ==
  /\ requestsLeft > 0
  /\ requestsLeft' = requestsLeft - 1
  /\ \E t \in Dates :
       LET change == [p \in proposalsTable |-> putProposalChange(p, body, t)]
       IN /\ now' = t
          /\ proposalsTable' = updateProposal(id, change)
          /\ httpStatus' = [route |-> "PUT /proposals/:id",
                            status |-> IF \E p \in proposalsTable : p.id = id THEN 200 ELSE 500]
  /\ UNCHANGED <<rfpsTable, compareReq, pollerMsg, evaluateReq, staleCache, scoringVars, conversationVars, serviceVars>>

IdleEvaluate == [pc |-> "idle", rfp |-> None, pending |-> <<>>, status |-> 0]

\* POST /proposals/:id/evaluate: the proposal is read with its RFP
EvaluateRead(id) ==
  /\ requestsLeft > 0
  /\ evaluateReq.pc # "evaluating"
  /\ requestsLeft' = requestsLeft - 1
  /\ LET found == {p \in proposalsTable : p.id = id}
     IN IF found = {}
        THEN evaluateReq' = [IdleEvaluate EXCEPT !.pc = "done", !.status = 404]
        ELSE \E p \in found :
               evaluateReq' = [IdleEvaluate EXCEPT !.pc = "evaluating", !.pending = <<p>>,
                 !.rfp = Some([budget |-> Val(rfpsTable[p.rfpId]).budget,
                               requirements |-> Val(rfpsTable[p.rfpId]).requirements])]
  /\ UNCHANGED <<rfpsTable, proposalsTable, now, compareReq, pollerMsg, httpStatus,
                 staleCache, scoringVars, conversationVars, serviceVars>>

\* POST /proposals/rfp/:rfpId/evaluate-all: the RFP and its proposals are read
EvaluateAllRead(r) ==
  /\ requestsLeft > 0
  /\ evaluateReq.pc # "evaluating"
  /\ requestsLeft' = requestsLeft - 1
  /\ IF rfpsTable[r] = None
     THEN evaluateReq' = [IdleEvaluate EXCEPT !.pc = "done", !.status = 404]
     ELSE IF ProposalsOf(r) = {}
     THEN evaluateReq' = [IdleEvaluate EXCEPT !.pc = "done", !.status = 200]
     ELSE evaluateReq' = [IdleEvaluate EXCEPT !.pc = "evaluating",
            !.pending = RowsById(ProposalsOf(r)),
            !.rfp = Some([budget |-> Val(rfpsTable[r]).budget,
                          requirements |-> Val(rfpsTable[r]).requirements])]
  /\ UNCHANGED <<rfpsTable, proposalsTable, now, compareReq, pollerMsg, httpStatus,
                 staleCache, scoringVars, conversationVars, serviceVars>>

\* The update of either evaluate route for the next proposal it has read:
\* set({parsedData: parsedDataWithEvaluation, updatedAt: new Date()})
EvaluateStep ==
  /\ evaluateReq.pc = "evaluating"
  /\ \E t \in Dates :
       LET snap == Head(evaluateReq.pending)
           change ==
             [p \in proposalsTable |->
                [p EXCEPT !.parsedData = withEvaluation(snap.parsedData, proposalForEvaluation(snap),
                                                        Val(evaluateReq.rfp)),
                          !.updatedAt = t]]
       IN /\ now' = t
          /\ proposalsTable' = updateProposal(snap.id, change)
          /\ evaluateReq' =
               IF Len(evaluateReq.pending) = 1
               THEN [IdleEvaluate EXCEPT !.pc = "done", !.status = 200]
               ELSE [evaluateReq EXCEPT !.pending = Tail(@)]
  /\ UNCHANGED <<rfpsTable, compareReq, pollerMsg, httpStatus, requestsLeft, staleCache,
                 scoringVars, conversationVars, serviceVars>>

(***************************************************************************)
(* Writers of RFP rows: PUT /rfps/:id and updateRfpFromDraft               *)
(***************************************************************************)
\* Bodies that pass validateRFP: title and description are not empty.
RfpBodies ==
  {[title |-> Some("Laptops "), description |-> Some("<b>20</b> laptops"), budget |-> b.budget,
    deadline |-> None, requirements |-> b.requirements, status |-> None] :
     b \in {[budget |-> None, requirements |-> None],
            [budget |-> Some(0), requirements |-> None],
            [budget |-> Some(200), requirements |-> None],
            [budget |-> None, requirements |-> Some(ChairRequirements)]}}

\* A route that stores requirements and budget but leaves the cache alone.
MutPutRfpChange(row, body) ==
  [row EXCEPT
     !.title = IF TruthyStr(body.title) THEN Val(sanitizeString(body.title)) ELSE @,
     !.description = IF TruthyStr(body.description) THEN Val(sanitizeString(body.description)) ELSE @,
     !.budget = IF body.budget # None THEN valueOrNull(body.budget) ELSE @,
     !.deadline = IF body.deadline # None THEN valueOrNull(body.deadline) ELSE @,
     !.requirements = IF body.requirements # None THEN Val(body.requirements) ELSE @,
     !.status = IF TruthyStr(body.status) THEN Val(body.status) ELSE @]

\* updateData of PUT /rfps/:id applied to a row
putRfpChange(row, body) ==
  [row EXCEPT
     !.title = IF TruthyStr(body.title) THEN Val(sanitizeString(body.title)) ELSE @,
     !.description = IF TruthyStr(body.description) THEN Val(sanitizeString(body.description)) ELSE @,
     !.budget = IF body.budget # None THEN valueOrNull(body.budget) ELSE @,
     !.deadline = IF body.deadline # None THEN valueOrNull(body.deadline) ELSE @,
     !.requirements = IF body.requirements # None THEN Val(body.requirements) ELSE @,
     !.status = IF TruthyStr(body.status) THEN Val(body.status) ELSE @,
     !.comparisonCache = IF body.requirements # None \/ body.budget # None THEN None ELSE @,
     !.comparisonCacheUpdatedAt = IF body.requirements # None \/ body.budget # None THEN None ELSE @]

PutRfp(r, body) ==
  /\ requestsLeft > 0
  /\ requestsLeft' = requestsLeft - 1
  /\ rfpsTable' = [rfpsTable EXCEPT ![r] =
       IF rfpsTable[r] = None THEN None ELSE Some(putRfpChange(Val(rfpsTable[r]), body))]
  /\ httpStatus' = [route |-> "PUT /rfps/:id", status |-> 200]
  /\ IF rfpsTable[r] # None /\ (body.requirements # None \/ body.budget # None)
     THEN /\ compareReq' = markMissed(r)
          /\ staleCache' = staleCache \ {r}
     ELSE UNCHANGED <<compareReq, staleCache>>
  /\ UNCHANGED <<proposalsTable, now, pollerMsg, evaluateReq, scoringVars, conversationVars, serviceVars>>

EmptyDraft ==
  [title |-> None, description |-> None, budget |-> None, deadline |-> None,
   requirements |-> None]

\* Merged drafts handed to updateRfpFromDraft.
MergedDrafts ==
  {EmptyDraft,
   [EmptyDraft EXCEPT !.title = Some("Laptops for sales"), !.requirements = Some(NoRequirements)],
   [EmptyDraft EXCEPT !.title = Some("Laptops"), !.budget = Some(0)],
   [EmptyDraft EXCEPT !.description = Some("20 laptops"), !.budget = Some(200)],
   [EmptyDraft EXCEPT !.requirements = Some([NoRequirements EXCEPT !.deliveryDays = Some(5)])]}

draftRequirements(draft) ==
  IF draft.requirements = None THEN NoRequirements
  ELSE LET rq == Val(draft.requirements)
       IN [items |-> rq.items,
           deliveryDays |-> NumOrUndefined(rq.deliveryDays),
           paymentTerms |-> StrOrUndefined(rq.paymentTerms),
           warranty |-> StrOrUndefined(rq.warranty),
           otherRequirements |-> rq.otherRequirements]

MutHasRequirementsData(draft) ==
  draft.requirements # None

hasRequirementsData(draft) ==
  /\ draft.requirements # None
  /\ LET rq == Val(draft.requirements)
     IN \/ rq.items # <<>>
        \/ TruthyNum(rq.deliveryDays)
        \/ TruthyStr(rq.paymentTerms)
        \/ TruthyStr(rq.warranty)
        \/ rq.otherRequirements # <<>>

\* The title updateRfpFromDraft stores, None when it leaves the title alone.
draftTitleUpdate(existingRfp, draft) ==
  IF existingRfp.title = "Auto-generated title" /\ TruthyStr(draft.description)
     /\ trim(Val(draft.description)) # ""
  THEN IF Len(Val(draft.description)) > 40
       THEN Some(trim(SubSeq(Val(draft.description), 1, 40)) \o "...")
       ELSE Some(trim(Val(draft.description)))
  ELSE IF TruthyStr(draft.title) /\ trim(Val(draft.title)) # ""
          /\ Val(draft.title) # "Auto-generated title" /\ Val(draft.title) # existingRfp.title
  THEN draft.title
  ELSE None

draftDescriptionUpdate(existingRfp, draft) ==
  IF TruthyStr(draft.description) /\ trim(Val(draft.description)) # ""
     /\ Val(draft.description) # existingRfp.description
  THEN draft.description
  ELSE None

\* updateData.requirements || updateData.budget !== undefined
draftInvalidates(draft) == hasRequirementsData(draft) \/ draft.budget # None

\* updateData of updateRfpFromDraft applied to the row
draftRfpChange(row, draft) ==
  [row EXCEPT
     !.title = IF draftTitleUpdate(row, draft) # None THEN Val(draftTitleUpdate(row, draft)) ELSE @,
     !.description = IF draftDescriptionUpdate(row, draft) # None
                     THEN Val(draftDescriptionUpdate(row, draft)) ELSE @,
     !.budget = IF draft.budget # None THEN draft.budget ELSE @,
     !.deadline = IF TruthyNum(draft.deadline) THEN draft.deadline ELSE @,
     !.requirements = IF hasRequirementsData(draft) THEN draftRequirements(draft) ELSE @,
     !.comparisonCache = IF draftInvalidates(draft) THEN None ELSE @,
     !.comparisonCacheUpdatedAt = IF draftInvalidates(draft) THEN None ELSE @]

UpdateRfpFromDraft(r, draft) ==
  /\ requestsLeft > 0
  /\ requestsLeft' = requestsLeft - 1
  /\ rfpsTable' = [rfpsTable EXCEPT ![r] =
       IF rfpsTable[r] = None THEN None ELSE Some(draftRfpChange(Val(rfpsTable[r]), draft))]
  /\ IF rfpsTable[r] # None /\ draftInvalidates(draft)
     THEN /\ compareReq' = markMissed(r)
          /\ staleCache' = staleCache \ {r}
     ELSE UNCHANGED <<compareReq, staleCache>>
  /\ UNCHANGED <<proposalsTable, now, pollerMsg, evaluateReq, httpStatus, scoringVars, conversationVars, serviceVars>>

(***************************************************************************)
(* The draft of a conversation (conversationService.ts).  The drafts come  *)
(* from a language model and are typed any.  A value is a record with one  *)
(* field that names its type: [undefined |-> 0] (also an absent key),      *)
(* [null |-> 0], [string |-> s], [number |-> n], [array |-> entries],      *)
(* [item |-> [name, quantity, specifications]] and [object |-> keys], the  *)
(* keys being those a requirements object can carry (a plain {} has them   *)
(* all undefined).  chars is the text whose characters a spread string     *)
(* left behind as keys "0", "1", ...                                       *)
(***************************************************************************)
\* !!x
truthy(x) ==
  /\ DOMAIN x \cap {"undefined", "null"} = {}
  /\ DOMAIN x = {"string"} => x.string # ""
  /\ DOMAIN x = {"number"} => x.number # 0

EmptyObject ==
  [items |-> [undefined |-> 0], deliveryDays |-> [undefined |-> 0],
   paymentTerms |-> [undefined |-> 0], warranty |-> [undefined |-> 0],
   otherRequirements |-> [undefined |-> 0], chars |-> ""]

\* the draft {}
EmptyRfpDraft ==
  [title |-> [undefined |-> 0], description |-> [undefined |-> 0],
   budget |-> [undefined |-> 0], deadline |-> [undefined |-> 0],
   requirements |-> [undefined |-> 0], items |-> [undefined |-> 0],
   deliveryRequirements |-> [undefined |-> 0]]

\* JSON.parse(s), None when it throws.  Of the texts used here a run of
\* digits, "{}" and the one-item array are JSON; the others are not.
jsonParse(s) ==
  IF s # "" /\ DigitRun(s, 1) = s THEN Some([number |-> parseInt(s)])
  ELSE IF s = "{}" THEN Some([object |-> EmptyObject])
  ELSE IF s = "[{\"name\":\"Mouse\"}]"
  THEN Some([array |-> <<[item |-> [name |-> "Mouse", quantity |-> None, specifications |-> None]]>>])
  ELSE None

\* parseInt(s) and parseFloat(s) of a text without leading space, sign or
\* fraction; undefined stands for NaN.
leadingNumber(s) ==
  IF DigitRun(s, 1) = "" THEN [undefined |-> 0] ELSE [number |-> parseInt(DigitRun(s, 1))]

\* requirements?.f
requirementsField(requirements, f) ==
  IF DOMAIN requirements = {"object"} THEN requirements.object[f] ELSE [undefined |-> 0]

\* update.requirements.f = value, after if (!update.requirements)
\* update.requirements = {}.  The module is strict code, where setting a
\* property of a string or a number throws a TypeError (None).
setRequirementsField(update, f, value) ==
  IF ~truthy(update.requirements)
  THEN Some([update EXCEPT !.requirements = [object |-> [EmptyObject EXCEPT ![f] = value]]])
  ELSE IF DOMAIN update.requirements = {"object"}
  THEN Some([update EXCEPT !.requirements = [object |-> [@.object EXCEPT ![f] = value]]])
  ELSE None

\* lines 1413-1427: top-level items moved into requirements.items
moveItems(update) ==
  IF truthy(update.items) /\ ~truthy(requirementsField(update.requirements, "items"))
  THEN IF DOMAIN update.items = {"string"}
       THEN setRequirementsField([update EXCEPT !.items = [undefined |-> 0]], "items",
              IF jsonParse(update.items.string) # None THEN Val(jsonParse(update.items.string))
              ELSE [array |-> <<[item |-> [name |-> update.items.string, quantity |-> None,
                                           specifications |-> None]]>>])
       ELSE IF DOMAIN update.items = {"array"}
       THEN setRequirementsField([update EXCEPT !.items = [undefined |-> 0]], "items", update.items)
       ELSE Some([update EXCEPT
                    !.items = [undefined |-> 0],
                    !.requirements = IF truthy(@) THEN @ ELSE [object |-> EmptyObject]])
  ELSE Some(update)

\* lines 1430-1441: deliveryRequirements moved into requirements.deliveryDays
moveDeliveryRequirements(update) ==
  IF truthy(update.deliveryRequirements)
     /\ ~truthy(requirementsField(update.requirements, "deliveryDays"))
  THEN IF DOMAIN update.deliveryRequirements = {"number"}
       THEN setRequirementsField([update EXCEPT !.deliveryRequirements = [undefined |-> 0]],
                                 "deliveryDays", update.deliveryRequirements)
       ELSE IF DOMAIN update.deliveryRequirements = {"string"}
               /\ DOMAIN leadingNumber(update.deliveryRequirements.string) = {"number"}
       THEN setRequirementsField([update EXCEPT !.deliveryRequirements = [undefined |-> 0]],
                                 "deliveryDays", leadingNumber(update.deliveryRequirements.string))
       ELSE Some([update EXCEPT
                    !.deliveryRequirements = [undefined |-> 0],
                    !.requirements = IF truthy(@) THEN @ ELSE [object |-> EmptyObject]])
  ELSE Some(update)

\* self.filter((item, index, self) => index === self.findIndex((i) => i.name === item.name))
\* for entries none of which is null; the name of an entry that is not an
\* item is undefined
RECURSIVE MutFirstOfEachName(_)
MutFirstOfEachName(self) ==
  LET name(entry) == IF DOMAIN entry = {"item"} THEN [string |-> entry.item.name]
                     ELSE [undefined |-> 0]
  IN IF self = <<>> THEN <<>>
     ELSE IF \E j \in 2..Len(self) : name(self[j]) = name(self[1])
          THEN MutFirstOfEachName(Tail(self))
          ELSE <<self[1]>> \o MutFirstOfEachName(Tail(self))

RECURSIVE firstOfEachName(_)
firstOfEachName(self) ==
  LET name(entry) == IF DOMAIN entry = {"item"} THEN [string |-> entry.item.name]
                     ELSE [undefined |-> 0]
  IN IF self = <<>> THEN <<>>
     ELSE IF \E j \in 1..(Len(self) - 1) : name(self[j]) = name(self[Len(self)])
          THEN firstOfEachName(SubSeq(self, 1, Len(self) - 1))
          ELSE Append(firstOfEachName(SubSeq(self, 1, Len(self) - 1)), self[Len(self)])

\* lines 1463-1468: the merged items.  [...(x || [])] takes the entries of
\* an array and the characters of a string and throws for a value that is
\* not iterable; the filter throws when it reads .name of a null entry.
\* None when it throws.
mergedItems(existingItems, updateItems) ==
  LET iterable(x) == ~truthy(x) \/ DOMAIN x \subseteq {"array", "string"}
      spread(x) == IF ~truthy(x) THEN <<>>
                   ELSE IF DOMAIN x = {"array"} THEN x.array
                   ELSE [i \in 1..Len(x.string) |-> [string |-> CharAt(x.string, i)]]
  IN IF ~iterable(existingItems) \/ ~iterable(updateItems) THEN None
     ELSE IF \E i \in 1..Len(spread(existingItems) \o spread(updateItems)) :
                ~(DOMAIN (spread(existingItems) \o spread(updateItems))[i] \cap {"null", "undefined"} = {})
     THEN None
     ELSE Some([array |-> firstOfEachName(spread(existingItems) \o spread(updateItems))])

\* { ...(existing || {}), ...(update || {}) } of two requirements values:
\* a key of the later object, when it has it, replaces the earlier one
spreadRequirements(existing, update) ==
  [f \in DOMAIN EmptyObject |->
     IF f = "chars"
     THEN IF truthy(update) /\ DOMAIN update = {"string"} THEN update.string
          ELSE IF DOMAIN existing = {"object"} THEN existing.object.chars ELSE ""
     ELSE IF DOMAIN requirementsField(update, f) # {"undefined"} THEN requirementsField(update, f)
          ELSE requirementsField(existing, f)]

\* lines 1444-1471: the merge of the existing draft and the prepared update
\* (None: preparing it threw); None when the merge throws.  A budget or
\* deadline that is '' or null is deleted from the update, which leaves the
\* existing value in place; a budget text is replaced by its number, or by
\* undefined.
mergeDrafts(existing, update) ==
  LET field(f) ==
        IF f \in {"budget", "deadline"} /\ DOMAIN Val(update)[f] \subseteq {"string", "null"}
           /\ ~truthy(Val(update)[f])
        THEN existing[f]
        ELSE IF f = "budget" /\ DOMAIN Val(update)[f] = {"string"}
        THEN leadingNumber(Val(update)[f].string)
        ELSE IF DOMAIN Val(update)[f] # {"undefined"} THEN Val(update)[f]
        ELSE existing[f]
  IN IF update = None THEN None
     ELSE IF ~(truthy(Val(update).requirements) \/ truthy(existing.requirements))
     THEN Some([f \in DOMAIN EmptyRfpDraft |->
                  IF f = "requirements" THEN [undefined |-> 0] ELSE field(f)])
     ELSE IF mergedItems(requirementsField(existing.requirements, "items"),
                         requirementsField(Val(update).requirements, "items")) = None
     THEN None
     ELSE Some([f \in DOMAIN EmptyRfpDraft |->
                  IF f = "requirements"
                  THEN [object |->
                          [spreadRequirements(existing.requirements, Val(update).requirements) EXCEPT
                             !.items = Val(mergedItems(requirementsField(existing.requirements, "items"),
                                                       requirementsField(Val(update).requirements, "items")))]]
                  ELSE field(f)])

\* The merged draft, None when normalizeRfpDraft throws.  draftUpdate is a
\* draft [object |-> fields], or null.  Lines 1396-1404 parse requirements
\* of the existing draft that are a string, and drop them when that fails.
normalizeRfpDraft(existingDraft, draftUpdate) ==
  LET normalizedExistingRfpDraft ==
        IF truthy(existingDraft.requirements) /\ DOMAIN existingDraft.requirements = {"string"}
        THEN [existingDraft EXCEPT !.requirements =
                IF jsonParse(@.string) = None THEN [undefined |-> 0] ELSE Val(jsonParse(@.string))]
        ELSE existingDraft
  IN IF ~truthy(draftUpdate) THEN Some(normalizedExistingRfpDraft)
     ELSE IF moveItems(draftUpdate.object) = None THEN None
     ELSE mergeDrafts(normalizedExistingRfpDraft,
                      moveDeliveryRequirements(Val(moveItems(draftUpdate.object))))

\* The calls of normalizeRfpDraft that are checked: stored drafts, and
\* fragments as the language model can send them.
DraftCalls ==
  LET Item(name, quantity) ==
        [item |-> [name |-> name, quantity |-> quantity, specifications |-> None]]
      WithItems(items) == [object |-> [EmptyObject EXCEPT !.items = items]]
      ExistingDrafts ==
        {EmptyRfpDraft,
         [EmptyRfpDraft EXCEPT
            !.title = [string |-> "Laptops"], !.budget = [number |-> 100],
            !.requirements = [object |-> [EmptyObject EXCEPT
               !.items = [array |-> <<Item("Laptop", Some(20))>>],
               !.deliveryDays = [number |-> 10]]]],
         [EmptyRfpDraft EXCEPT !.description = [string |-> "office"],
                               !.requirements = [string |-> "5"]],
         [EmptyRfpDraft EXCEPT !.title = [string |-> "Laptops"],
                               !.requirements = [string |-> "laptops"]],
         [EmptyRfpDraft EXCEPT
            !.requirements = [object |-> [EmptyObject EXCEPT !.deliveryDays = [number |-> 5]]]],
         [EmptyRfpDraft EXCEPT
            !.requirements = WithItems([array |-> <<Item("Laptop", Some(20)), Item("Laptop", Some(5))>>])]}
      DraftUpdates ==
        {[null |-> 0], [object |-> EmptyRfpDraft]}
        \cup
        {[object |-> [EmptyRfpDraft EXCEPT !.requirements = WithItems(items)]] :
           items \in {[array |-> <<Item("laptop", None)>>],
                      [array |-> <<Item("Laptop", Some(99)), Item("Mouse", None)>>],
                      [array |-> <<Item("Mouse", None), [null |-> 0]>>],
                      [number |-> 5],
                      [string |-> "ab"],
                      [object |-> EmptyObject]}}
        \cup
        {[object |-> [EmptyRfpDraft EXCEPT !.items = items]] :
           items \in {[string |-> "[{\"name\":\"Mouse\"}]"],
                      [string |-> "5"],
                      [string |-> "Monitor"],
                      [number |-> 5]}}
        \cup
        {[object |-> [EmptyRfpDraft EXCEPT !.items = [array |-> <<Item("Mouse", None)>>],
                                           !.requirements = [string |-> "abc"]]],
         [object |-> [EmptyRfpDraft EXCEPT !.requirements = [string |-> "abc"]]],
         [object |-> [EmptyRfpDraft EXCEPT !.budget = [null |-> 0], !.deadline = [string |-> ""]]],
         [object |-> [EmptyRfpDraft EXCEPT !.budget = [string |-> "12"]]],
         [object |-> [EmptyRfpDraft EXCEPT !.budget = [string |-> "abc"]]],
         [object |-> [EmptyRfpDraft EXCEPT !.title = [string |-> "Desks"],
                                           !.budget = [number |-> 200],
                                           !.deadline = [string |-> "7"]]],
         [object |-> [EmptyRfpDraft EXCEPT
            !.items = [array |-> <<Item("Mouse", None)>>],
            !.requirements = [object |-> [EmptyObject EXCEPT !.deliveryDays = [number |-> 9]]]]],
         [object |-> [EmptyRfpDraft EXCEPT !.deliveryRequirements = [string |-> "7 days"]]],
         [object |-> [EmptyRfpDraft EXCEPT !.deliveryRequirements = [string |-> "soon"]]],
         [object |-> [EmptyRfpDraft EXCEPT
            !.deliveryRequirements = [number |-> 3],
            !.requirements = [object |-> [EmptyObject EXCEPT !.deliveryDays = [number |-> 9]]]]]}
  IN {[existingDraft |-> e, draftUpdate |-> u] : e \in ExistingDrafts, u \in DraftUpdates}

\* normalizeRfpDraft(existingDraft, draftUpdate): its result, and the two
\* arguments as the call leaves them.  update = { ...draftUpdate } copies
\* the keys of the fragment, not the requirements object they refer to, so
\* what lines 1419-1438 assign to update.requirements is assigned to the
\* caller's object, unless line 1415 or 1432 made a new one.
Normalize ==
  /\ draftCall # None
  /\ draftOut = None
  /\ draftOut' = Some([merged |-> normalizeRfpDraft(Val(draftCall).existingDraft,
                                                    Val(draftCall).draftUpdate),
                       again |-> None,
                       arguments |->
                         IF DOMAIN Val(draftCall).draftUpdate = {"object"}
                            /\ DOMAIN Val(draftCall).draftUpdate.object.requirements = {"object"}
                         THEN [Val(draftCall) EXCEPT
                                 !.draftUpdate.object.requirements =
                                    Val(moveDeliveryRequirements(
                                          Val(moveItems(Val(draftCall).draftUpdate.object)))).requirements]
                         ELSE Val(draftCall)])
  /\ UNCHANGED <<draftCall, agentState, conversationStatus, sentEmails, turnsLeft, response,
                 workflowVars, scoringVars, serviceVars>>

\* normalizeRfpDraft(merged, {})
NormalizeAgain ==
  /\ draftOut # None
  /\ Val(draftOut).merged # None
  /\ Val(draftOut).again = None
  /\ draftOut' = Some([Val(draftOut) EXCEPT
                         !.again = Some(normalizeRfpDraft(Val(Val(draftOut).merged),
                                                          [object |-> EmptyRfpDraft]))])
  /\ UNCHANGED <<draftCall, agentState, conversationStatus, sentEmails, turnsLeft, response,
                 workflowVars, scoringVars, serviceVars>>

(***************************************************************************)
(* The conversation: POST /conversations/:id/message, processRfpDraft,     *)
(* createRfpFromDraft and POST /ai/send-rfp.  There is one conversation;   *)
(* its requests are handled one after another.                             *)
(***************************************************************************)
MaxTurns == 3

\* The fields of a merged draft as updateRfpFromDraft and createRfpFromDraft
\* read them.  A deadline text names its date by the digits of its time.
draftFields(d) ==
  [title |-> IF DOMAIN d.title = {"string"} THEN Some(d.title.string) ELSE None,
   description |-> IF DOMAIN d.description = {"string"} THEN Some(d.description.string) ELSE None,
   budget |-> IF DOMAIN d.budget = {"number"} THEN Some(d.budget.number) ELSE None,
   deadline |-> IF DOMAIN d.deadline = {"string"}
                   /\ DOMAIN leadingNumber(d.deadline.string) = {"number"}
                THEN Some(leadingNumber(d.deadline.string).number) ELSE None,
   requirements |->
     IF DOMAIN d.requirements # {"object"} THEN None
     ELSE Some([f \in DOMAIN NoRequirements |->
                  IF f \in {"items", "otherRequirements"}
                  THEN IF DOMAIN d.requirements.object[f] # {"array"} THEN <<>>
                       ELSE [i \in 1..Len(d.requirements.object[f].array) |->
                               IF DOMAIN d.requirements.object[f].array[i] = {"item"}
                               THEN d.requirements.object[f].array[i].item
                               ELSE d.requirements.object[f].array[i]]
                  ELSE IF DOMAIN d.requirements.object[f] = {"number"}
                       THEN Some(d.requirements.object[f].number)
                       ELSE IF DOMAIN d.requirements.object[f] = {"string"}
                       THEN Some(d.requirements.object[f].string) ELSE None])]

\* createRfpFromDraft(mergedRfpDraft) at time t, on the fields of the
\* merged draft: the row it inserts, None when it returns null.
MutCreateRfpFromDraft(draft, t) ==
  IF ~(TruthyStr(draft.title) /\ trim(Val(draft.title)) # "")
     \/ (~(TruthyStr(draft.description) /\ trim(Val(draft.description)) # "")
         \/ ~(draft.requirements # None /\ Val(draft.requirements).items # <<>>))
  THEN None
  ELSE Some([title |-> IF Val(draft.title) = "Auto-generated title" /\ TruthyStr(draft.description)
                       THEN IF Len(trim(Val(draft.description))) > 50
                            THEN trim(SubSeq(trim(Val(draft.description)), 1, 50)) \o "..."
                            ELSE trim(Val(draft.description))
                       ELSE Val(draft.title),
             description |-> IF TruthyStr(draft.description) THEN Val(draft.description)
                             ELSE Val(draft.title),
             budget |-> NumOrUndefined(draft.budget),
             deadline |-> NumOrUndefined(draft.deadline),
             requirements |-> draftRequirements(draft),
             status |-> "draft", comparisonCache |-> None, comparisonCacheUpdatedAt |-> None,
             createdAt |-> t])

createRfpFromDraft(draft, t) ==
  IF ~(TruthyStr(draft.title) /\ trim(Val(draft.title)) # "")
     \/ (~(TruthyStr(draft.description) /\ trim(Val(draft.description)) # "")
         /\ ~(draft.requirements # None /\ Val(draft.requirements).items # <<>>))
  THEN None
  ELSE Some([title |-> IF Val(draft.title) = "Auto-generated title" /\ TruthyStr(draft.description)
                       THEN IF Len(trim(Val(draft.description))) > 50
                            THEN trim(SubSeq(trim(Val(draft.description)), 1, 50)) \o "..."
                            ELSE trim(Val(draft.description))
                       ELSE Val(draft.title),
             description |-> IF TruthyStr(draft.description) THEN Val(draft.description)
                             ELSE Val(draft.title),
             budget |-> NumOrUndefined(draft.budget),
             deadline |-> NumOrUndefined(draft.deadline),
             requirements |-> draftRequirements(draft),
             status |-> "draft", comparisonCache |-> None, comparisonCacheUpdatedAt |-> None,
             createdAt |-> t])

\* createDefaultAgentState()
DefaultAgentState ==
  [workflowStep |-> "initial", rfpDraft |-> EmptyRfpDraft, rfpId |-> None]

\* What chatWithAgentState can return as stateUpdate: the keys of
\* AgentStateUpdateSchema that the core reads, None for a key not sent.
StateUpdates ==
  LET Items(items) ==
        [object |-> [EmptyObject EXCEPT !.items = [array |-> items]]]
      Item(name, quantity) ==
        [item |-> [name |-> name, quantity |-> quantity, specifications |-> None]]
  IN {[workflowStep |-> w, rfpId |-> id, rfpDraft |-> d] :
        w \in {None, Some("collecting_requirements"), Some("ready_to_send")},
        id \in {None, Some("r2"), Some("")},
        d \in {[undefined |-> 0],
               [object |-> [EmptyRfpDraft EXCEPT !.title = [string |-> " "],
                                                 !.description = [string |-> "office"]]],
               [object |-> [EmptyRfpDraft EXCEPT !.title = [string |-> "Desks"]]],
               [object |-> [EmptyRfpDraft EXCEPT !.title = [string |-> "Laptops"],
                                                 !.requirements = Items(<<Item("Laptop", Some(20))>>)]],
               [object |-> [EmptyRfpDraft EXCEPT !.description = [string |-> "office"],
                                                 !.budget = [number |-> 200],
                                                 !.requirements = Items(<<Item("laptop", None)>>)]],
               [object |-> [EmptyRfpDraft EXCEPT
                              !.requirements = Items(<<Item("Mouse", None), [null |-> 0]>>)]]}}

\* updateAgentState(conversationId, {...stateUpdate, rfpDraft: mergedRfpDraft})
updateAgentState(state, stateUpdate, mergedRfpDraft) ==
  [workflowStep |-> IF stateUpdate.workflowStep # None THEN Val(stateUpdate.workflowStep)
                    ELSE state.workflowStep,
   rfpId |-> IF stateUpdate.rfpId # None THEN stateUpdate.rfpId ELSE state.rfpId,
   rfpDraft |-> mergedRfpDraft]

\* processRfpDraft(conversationId, state, stateUpdate) with the draft it
\* merges again (None: the merge threw), at time t, id being the next
\* randomUUID(): the agent state, the RFP rows and the conversation status
\* it leaves.
processRfpDraft(state, stateUpdate, mergedRfpDraft, id, t) ==
  IF ~truthy(stateUpdate.rfpDraft) \/ mergedRfpDraft = None
  THEN [agentState |-> state, rfpsTable |-> rfpsTable, status |-> conversationStatus]
  ELSE IF TruthyStr(state.rfpId)
  THEN [agentState |-> state,
        rfpsTable |-> [r \in RfpIds |->
                         IF r = Val(state.rfpId) /\ rfpsTable[r] # None
                         THEN Some(draftRfpChange(Val(rfpsTable[r]), draftFields(Val(mergedRfpDraft))))
                         ELSE rfpsTable[r]],
        status |-> conversationStatus]
  ELSE IF createRfpFromDraft(draftFields(Val(mergedRfpDraft)), t) = None
  THEN [agentState |-> state, rfpsTable |-> rfpsTable, status |-> conversationStatus]
  ELSE [agentState |-> [state EXCEPT !.rfpId = Some(id), !.workflowStep = "ready_to_send"],
        rfpsTable |-> [rfpsTable EXCEPT
                         ![id] = createRfpFromDraft(draftFields(Val(mergedRfpDraft)), t)],
        status |-> "ready_to_send"]

\* POST /conversations/:id/message, stateUpdate being what the language
\* model returned (None: no state update, or the call failed).  The status
\* of the conversation follows stateUpdate.workflowStep when it is sent.
MessageTurn(stateUpdate) ==
  /\ turnsLeft > 0
  /\ \E id \in RfpIds : rfpsTable[id] = None
  /\ turnsLeft' = turnsLeft - 1
  /\ IF stateUpdate = None
     THEN /\ response' = [route |-> "message", status |-> 200, stateUpdate |-> None]
          /\ UNCHANGED <<agentState, conversationStatus, rfpsTable, now>>
     ELSE IF truthy(Val(stateUpdate).rfpDraft)
             /\ normalizeRfpDraft(agentState.rfpDraft, Val(stateUpdate).rfpDraft) = None
     THEN /\ response' = [route |-> "message", status |-> 500, stateUpdate |-> stateUpdate]
          /\ UNCHANGED <<agentState, conversationStatus, rfpsTable, now>>
     ELSE \E t \in Dates :
          \E id \in {CHOOSE r \in RfpIds : rfpsTable[r] = None} :
          \E updatedState \in
               {updateAgentState(agentState, Val(stateUpdate),
                  IF truthy(Val(stateUpdate).rfpDraft)
                  THEN Val(normalizeRfpDraft(agentState.rfpDraft, Val(stateUpdate).rfpDraft))
                  ELSE agentState.rfpDraft)} :
          \E done \in
               {processRfpDraft(updatedState, Val(stateUpdate),
                  normalizeRfpDraft(updatedState.rfpDraft, Val(stateUpdate).rfpDraft), id, t)} :
            /\ now' = t
            /\ agentState' = done.agentState
            /\ rfpsTable' = done.rfpsTable
            /\ conversationStatus' =
                 IF Val(stateUpdate).workflowStep = None THEN done.status
                 ELSE IF Val(Val(stateUpdate).workflowStep)
                           \in {"ready_to_send", "collecting_requirements", "sent", "closed"}
                 THEN Val(Val(stateUpdate).workflowStep)
                 ELSE "drafting_rfp"
            /\ response' = [route |-> "message", status |-> 200, stateUpdate |-> stateUpdate]
  /\ UNCHANGED <<proposalsTable, compareReq, pollerMsg, evaluateReq, httpStatus, requestsLeft,
                 staleCache, draftCall, draftOut, sentEmails, scoringVars, serviceVars>>

\* POST /ai/send-rfp {rfpId, vendorIds, conversationId}; delivered: the
\* vendors whose e-mail sendRFPEmail sent without throwing.
SendRfp(rfpId, vendorIds, withConversation, delivered) ==
  /\ turnsLeft > 0
  /\ turnsLeft' = turnsLeft - 1
  /\ IF vendorIds = {}
     THEN /\ response' = [route |-> "send-rfp", status |-> 400, stateUpdate |-> None]
          /\ UNCHANGED <<rfpsTable, sentEmails, agentState, conversationStatus>>
     ELSE IF rfpsTable[rfpId] = None
     THEN /\ response' = [route |-> "send-rfp", status |-> 404, stateUpdate |-> None]
          /\ UNCHANGED <<rfpsTable, sentEmails, agentState, conversationStatus>>
     ELSE IF \/ withConversation /\ TruthyStr(agentState.rfpId) /\ Val(agentState.rfpId) # rfpId
             \/ ~(vendorIds \subseteq VendorIds)
     THEN /\ response' = [route |-> "send-rfp", status |-> 400, stateUpdate |-> None]
          /\ UNCHANGED <<rfpsTable, sentEmails, agentState, conversationStatus>>
     ELSE /\ sentEmails' = sentEmails \cup
               {[conversationId |-> IF withConversation THEN Some("c1") ELSE None,
                 rfpId |-> rfpId, vendorId |-> v] : v \in delivered}
          /\ rfpsTable' = [rfpsTable EXCEPT ![rfpId] = Some([Val(@) EXCEPT !.status = "sent"])]
          /\ IF withConversation
             THEN /\ agentState' = [agentState EXCEPT !.workflowStep = "sent"]
                  /\ conversationStatus' = "sent"
             ELSE UNCHANGED <<agentState, conversationStatus>>
          /\ response' = [route |-> "send-rfp", status |-> 200, stateUpdate |-> None]
  /\ UNCHANGED <<proposalsTable, now, compareReq, pollerMsg, evaluateReq, httpStatus,
                 requestsLeft, staleCache, draftCall, draftOut, scoringVars, serviceVars>>

(***************************************************************************)
(* Two message requests of one conversation in flight.  A request reads    *)
(* the conversation when it arrives (verifyConversationAccess), awaits the *)
(* language model, merges the draft it read and stores the state, and then *)
(* runs processRfpDraft on the state it stored; every await lets the other *)
(* request run.                                                            *)
(***************************************************************************)
Turns == {"t1", "t2"}

IdleTurn == [pc |-> "idle", stateUpdate |-> None, agentState |-> DefaultAgentState]

\* db/index.ts:223-270: the request arrives, reads the conversation and
\* calls the language model, which will return stateUpdate
TurnRead(p, stateUpdate) ==
  /\ turnsLeft > 0
  /\ turn[p].pc = "idle"
  /\ turnsLeft' = turnsLeft - 1
  /\ turn' = [turn EXCEPT ![p] = [pc |-> "called", stateUpdate |-> stateUpdate,
                                  agentState |-> agentState]]
  /\ UNCHANGED <<workflowVars, scoringVars, draftCall, draftOut, agentState,
                 conversationStatus, sentEmails, response, poll, mail>>

\* db/index.ts:306-317: the draft the request read is merged with the
\* fragment, and updateAgentState spreads the result over the state stored
\* now; the request keeps the state updateAgentState returns
TurnMerge(p) ==
  /\ turn[p].pc = "called"
  /\ IF turn[p].stateUpdate = None
     THEN /\ response' = [route |-> "message", status |-> 200, stateUpdate |-> None]
          /\ turn' = [turn EXCEPT ![p] = IdleTurn]
          /\ UNCHANGED agentState
     ELSE IF truthy(Val(turn[p].stateUpdate).rfpDraft)
             /\ normalizeRfpDraft(turn[p].agentState.rfpDraft,
                                  Val(turn[p].stateUpdate).rfpDraft) = None
     THEN /\ response' = [route |-> "message", status |-> 500,
                          stateUpdate |-> turn[p].stateUpdate]
          /\ turn' = [turn EXCEPT ![p] = IdleTurn]
          /\ UNCHANGED agentState
     ELSE /\ agentState' =
               updateAgentState(agentState, Val(turn[p].stateUpdate),
                  IF truthy(Val(turn[p].stateUpdate).rfpDraft)
                  THEN Val(normalizeRfpDraft(turn[p].agentState.rfpDraft,
                                             Val(turn[p].stateUpdate).rfpDraft))
                  ELSE turn[p].agentState.rfpDraft)
          /\ turn' = [turn EXCEPT ![p] = [@ EXCEPT !.pc = "merged", !.agentState = agentState']]
          /\ UNCHANGED response
  /\ UNCHANGED <<workflowVars, scoringVars, draftCall, draftOut, conversationStatus,
                 sentEmails, turnsLeft, poll, mail>>

\* db/index.ts:319-366: processRfpDraft on the state the request stored,
\* whose updateAgentState({rfpId, workflowStep}) spreads over the state
\* stored now, then the status the stateUpdate asks for, and the response
TurnProcess(p) ==
  /\ turn[p].pc = "merged"
  /\ \E r \in RfpIds : rfpsTable[r] = None
  /\ \E t \in Dates :
     \E id \in {CHOOSE r \in RfpIds : rfpsTable[r] = None} :
     \E done \in
          {processRfpDraft(turn[p].agentState, Val(turn[p].stateUpdate),
             normalizeRfpDraft(turn[p].agentState.rfpDraft,
                               Val(turn[p].stateUpdate).rfpDraft), id, t)} :
       /\ now' = t
       /\ rfpsTable' = done.rfpsTable
       /\ agentState' = IF done.agentState = turn[p].agentState THEN agentState
                        ELSE [agentState EXCEPT !.rfpId = done.agentState.rfpId,
                                                !.workflowStep = done.agentState.workflowStep]
       /\ conversationStatus' =
            IF Val(turn[p].stateUpdate).workflowStep = None THEN done.status
            ELSE IF Val(Val(turn[p].stateUpdate).workflowStep)
                      \in {"ready_to_send", "collecting_requirements", "sent", "closed"}
            THEN Val(Val(turn[p].stateUpdate).workflowStep)
            ELSE "drafting_rfp"
       /\ response' = [route |-> "message", status |-> 200, stateUpdate |-> turn[p].stateUpdate]
  /\ turn' = [turn EXCEPT ![p] = IdleTurn]
  /\ UNCHANGED <<proposalsTable, compareReq, pollerMsg, evaluateReq, httpStatus, requestsLeft,
                 staleCache, scoringVars, draftCall, draftOut, sentEmails, turnsLeft, poll, mail>>

(***************************************************************************)
(* The inbox poller (emailPoller.ts): pollInbox and its isPolling guard.   *)
(* The messages of a fetch are those of pollerMsg.                         *)
(***************************************************************************)
MaxPolls == 2

\* pollInbox(), called by startEmailPoller and then by the cron schedule
PollInbox ==
  /\ poll.pollsLeft > 0
  /\ poll' = IF poll.isPolling
             THEN [poll EXCEPT !.pollsLeft = @ - 1]
             ELSE [isPolling |-> TRUE, pc |-> "connecting", pollsLeft |-> poll.pollsLeft - 1]
  /\ UNCHANGED <<workflowVars, scoringVars, conversationVars, turn, mail>>

\* The callbacks of imap 'ready', openBox and search without an error;
\* found: the search has results, whose messages are then fetched.
PollCallback(found) ==
  /\ poll.pc \in {"connecting", "opening", "searching"}
  /\ IF poll.pc = "connecting" THEN poll' = [poll EXCEPT !.pc = "opening"] /\ UNCHANGED pollerMsg
     ELSE IF poll.pc = "opening" THEN poll' = [poll EXCEPT !.pc = "searching"] /\ UNCHANGED pollerMsg
     ELSE IF found
     THEN /\ poll' = [poll EXCEPT !.pc = "fetching"]
          /\ pollerMsg' = [m \in Msgs |-> IdleMsg]
     ELSE /\ poll' = [poll EXCEPT !.pc = "idle", !.isPolling = FALSE]
          /\ UNCHANGED pollerMsg
  /\ UNCHANGED <<rfpsTable, proposalsTable, now, compareReq, evaluateReq, httpStatus,
                 requestsLeft, staleCache, scoringVars, conversationVars, turn, mail>>

\* imap 'error', an error of openBox or of search, or the fetch's 'error'
\* before a message is processed
PollError ==
  /\ poll.pc \in {"connecting", "opening", "searching", "fetching"}
  /\ poll.pc = "fetching" => \A m \in Msgs : pollerMsg[m].pc = "idle"
  /\ poll' = [poll EXCEPT !.pc = "idle", !.isPolling = FALSE]
  /\ UNCHANGED <<workflowVars, scoringVars, conversationVars, turn, mail>>

\* simpleParser hands processEmailMessage an error: reject(err)
MsgRejected(m) ==
  /\ poll.pc = "fetching"
  /\ pollerMsg[m].pc = "idle"
  /\ pollerMsg' = [pollerMsg EXCEPT ![m] = [IdleMsg EXCEPT !.pc = "done", !.outcome = "rejected"]]
  /\ UNCHANGED <<rfpsTable, proposalsTable, now, compareReq, evaluateReq, httpStatus,
                 requestsLeft, staleCache, scoringVars, conversationVars, serviceVars>>

\* The fetch's 'end': await Promise.all(promises); imap.end();
\* isPolling = false.  When a promise has rejected, the await throws and
\* the two statements after it are not run.
PollEnd ==
  /\ poll.pc = "fetching"
  /\ \A m \in Msgs : pollerMsg[m].pc \in {"idle", "done"}
  /\ \E m \in Msgs : pollerMsg[m].pc = "done"
  /\ poll' = IF \E m \in Msgs : pollerMsg[m].outcome = "rejected"
             THEN [poll EXCEPT !.pc = "ended"]
             ELSE [poll EXCEPT !.pc = "idle", !.isPolling = FALSE]
  /\ UNCHANGED <<workflowVars, scoringVars, conversationVars, turn, mail>>

(***************************************************************************)
(* sendRFPEmail(vendor, rfp, retries = 2) of emailService.ts               *)
(***************************************************************************)
\* How the try block of one call can end: "" for a sent message, else the
\* code and the message of what is caught ("NO_CODE": an error without a
\* code, as the ones the block throws itself).
MailOutcomes ==
  {[code |-> "", message |-> ""],
   [code |-> "NO_CODE", message |-> "SMTP_FROM or SMTP_USER must be configured"],
   [code |-> "NO_CODE", message |-> "SMTP connection verification failed: Connection timeout"],
   [code |-> "ETIMEDOUT", message |-> "connect ETIMEDOUT"],
   [code |-> "ECONNRESET", message |-> "read ECONNRESET"],
   [code |-> "ECONNREFUSED", message |-> "connect ECONNREFUSED"],
   [code |-> "EAI_AGAIN", message |-> "getaddrinfo EAI_AGAIN"],
   [code |-> "ESOCKET", message |-> "Greeting never received, timeout"],
   [code |-> "NO_CODE", message |-> "Timeout"],
   [code |-> "ENOTFOUND", message |-> "getaddrinfo ENOTFOUND"],
   [code |-> "EAUTH", message |-> "Invalid login"]}

\* Every error is taken for a transient one.
MutIsRetryableError(error) == TRUE

isRetryableError(error) ==
  \/ error.code = "ETIMEDOUT"
  \/ error.code = "ECONNRESET"
  \/ error.code = "ECONNREFUSED"
  \/ includes(error.message, "timeout")
  \/ error.code = "EAI_AGAIN"

\* One transmission attempt of the call and what the call does with its
\* outcome: return, call itself with retries - 1, or throw.
SendAttempt(outcome) ==
  /\ mail.result = "pending"
  /\ mail' = [retries |-> IF outcome.code # "" /\ isRetryableError(outcome) /\ mail.retries > 0
                          THEN mail.retries - 1 ELSE mail.retries,
              attempts |-> Append(mail.attempts, outcome),
              result |-> IF outcome.code = "" THEN "success"
                         ELSE IF isRetryableError(outcome) /\ mail.retries > 0 THEN "pending"
                         ELSE "thrown"]
  /\ UNCHANGED <<workflowVars, scoringVars, conversationVars, turn, poll>>

(***************************************************************************)
(* Specifications                                                          *)
(***************************************************************************)
\* RFP r1 has been sent to the vendors and Acme has answered once.
InitRfp ==
  [title |-> "Laptops", description |-> "20 laptops", budget |-> Some(100), deadline |-> None,
   requirements |-> LaptopRequirements, status |-> "sent", comparisonCache |-> None,
   comparisonCacheUpdatedAt |-> None, createdAt |-> 0]

InitProposal ==
  pollerProposalData(
    [IdleMsg EXCEPT !.vendorId = Some("v1"),
       !.email = Some([from |-> "sales@acme.test", subject |-> "Re: RFP: Laptops",
                       body |-> "our offer", parsed |-> Some(ReplyA)]),
       !.rfp = Some([id |-> "r1", budget |-> InitRfp.budget, requirements |-> InitRfp.requirements])],
    1, 0)

WorkflowInit ==
  /\ rfpsTable = [r \in RfpIds |-> IF r = "r1" THEN Some(InitRfp) ELSE None]
  /\ proposalsTable = {InitProposal}
  /\ now = 0
  /\ compareReq = IdleCompare
  /\ pollerMsg = [m \in Msgs |-> IdleMsg]
  /\ evaluateReq = IdleEvaluate
  /\ httpStatus = [route |-> "", status |-> 0]
  /\ requestsLeft = MaxRequests
  /\ staleCache = {}

ConversationIdle ==
  /\ draftCall = None
  /\ draftOut = None
  /\ agentState = DefaultAgentState
  /\ conversationStatus = "drafting_rfp"
  /\ sentEmails = {}
  /\ turnsLeft = 0
  /\ response = [route |-> "", status |-> 0, stateUpdate |-> None]
  /\ turn = [p \in Turns |-> IdleTurn]
  /\ poll = [isPolling |-> FALSE, pc |-> "idle", pollsLeft |-> 0]
  /\ mail = [retries |-> 0, attempts |-> <<>>, result |-> "idle"]

Init == WorkflowInit /\ ScoringIdle /\ ConversationIdle

Next ==
  \/ \E m \in Msgs, email \in Emails : MsgStart(m, email)
  \/ \E m \in Msgs : MsgParseFailed(m)
  \/ \E m \in Msgs : MsgFindExisting(m)
  \/ \E m \in Msgs : MsgWrite(m)
  \/ \E m \in Msgs : MsgInvalidate(m)
  \/ \E r \in RfpIds, refresh \in BOOLEAN : CompareRead(r, refresh)
  \/ CompareWrite
  \/ CompareFail
  \/ \E r \in RfpIds \cup {""}, v \in VendorIds, b \in ProposalBodies :
       PostProposal([b EXCEPT !.rfpId = Some(r), !.vendorId = Some(v)])
  \/ \E id \in 1..NewProposalId, b \in ProposalBodies : PutProposal(id, b)
  \/ \E id \in 1..NewProposalId : EvaluateRead(id)
  \/ \E r \in RfpIds : EvaluateAllRead(r)
  \/ EvaluateStep
  \/ \E r \in RfpIds, b \in RfpBodies : PutRfp(r, b)
  \/ \E r \in RfpIds, d \in MergedDrafts : UpdateRfpFromDraft(r, d)

Spec == Init /\ [][Next]_vars

InitScoring == WorkflowInit /\ ScoringInit /\ ConversationIdle

SpecScoring == InitScoring /\ [][NextScoring]_vars

\* Either one normalizeRfpDraft call, or a new conversation with no RFP
\* stored yet.
InitConversation ==
  /\ rfpsTable = [r \in RfpIds |-> None]
  /\ proposalsTable = {}
  /\ now = 0
  /\ compareReq = IdleCompare
  /\ pollerMsg = [m \in Msgs |-> IdleMsg]
  /\ evaluateReq = IdleEvaluate
  /\ httpStatus = [route |-> "", status |-> 0]
  /\ requestsLeft = 0
  /\ staleCache = {}
  /\ ScoringIdle
  /\ draftOut = None
  /\ agentState = DefaultAgentState
  /\ conversationStatus = "drafting_rfp"
  /\ sentEmails = {}
  /\ response = [route |-> "", status |-> 0, stateUpdate |-> None]
  /\ turn = [p \in Turns |-> IdleTurn]
  /\ poll = [isPolling |-> FALSE, pc |-> "idle", pollsLeft |-> 0]
  /\ mail = [retries |-> 0, attempts |-> <<>>, result |-> "idle"]
  /\ \/ draftCall \in {Some(c) : c \in DraftCalls} /\ turnsLeft = 0
     \/ draftCall = None /\ turnsLeft = MaxTurns

NextConversation ==
  \/ Normalize
  \/ NormalizeAgain
  \/ \E stateUpdate \in {None} \cup {Some(u) : u \in StateUpdates} : MessageTurn(stateUpdate)
  \/ \E r \in RfpIds, vendorIds \in {{}, {"v1"}, {"v1", "v2"}, {"v1", "v9"}},
        withConversation \in BOOLEAN :
       \E delivered \in SUBSET (vendorIds \cap VendorIds) :
         SendRfp(r, vendorIds, withConversation, delivered)

SpecConversation == InitConversation /\ [][NextConversation]_vars

\* Two message requests of one new conversation, their awaits interleaved;
\* the language model names no RFP.
ConcurrentUpdates == {u \in StateUpdates : u.rfpId = None}

InitConcurrent ==
  /\ rfpsTable = [r \in RfpIds |-> None]
  /\ proposalsTable = {}
  /\ now = 0
  /\ compareReq = IdleCompare
  /\ pollerMsg = [m \in Msgs |-> IdleMsg]
  /\ evaluateReq = IdleEvaluate
  /\ httpStatus = [route |-> "", status |-> 0]
  /\ requestsLeft = 0
  /\ staleCache = {}
  /\ ScoringIdle
  /\ draftCall = None
  /\ draftOut = None
  /\ agentState = DefaultAgentState
  /\ conversationStatus = "drafting_rfp"
  /\ sentEmails = {}
  /\ turnsLeft = Cardinality(Turns)
  /\ response = [route |-> "", status |-> 0, stateUpdate |-> None]
  /\ turn = [p \in Turns |-> IdleTurn]
  /\ poll = [isPolling |-> FALSE, pc |-> "idle", pollsLeft |-> 0]
  /\ mail = [retries |-> 0, attempts |-> <<>>, result |-> "idle"]

NextConcurrent ==
  \/ \E p \in Turns, stateUpdate \in {None} \cup {Some(u) : u \in ConcurrentUpdates} :
       TurnRead(p, stateUpdate)
  \/ \E p \in Turns : TurnMerge(p)
  \/ \E p \in Turns : TurnProcess(p)

SpecConcurrent == InitConcurrent /\ [][NextConcurrent]_vars

\* An RFP with a title that holds the prefix of a reply's subject, created
\* after r1 and not sent.
DraftRfp ==
  [title |-> "Replacement monitors", description |-> "10 monitors", budget |-> Some(50),
   deadline |-> None, requirements |-> LaptopRequirements, status |-> "draft",
   comparisonCache |-> None, comparisonCacheUpdatedAt |-> None, createdAt |-> 1]

\* The server has started: startEmailPoller has scheduled the polls.  RFP
\* r1 has been sent; r2 is absent or a later draft.
InitPoller ==
  /\ rfpsTable \in {[r \in RfpIds |-> IF r = "r1" THEN Some(InitRfp) ELSE r2] :
                      r2 \in {None, Some(DraftRfp)}}
  /\ proposalsTable = {}
  /\ now = 1
  /\ compareReq = IdleCompare
  /\ pollerMsg = [m \in Msgs |-> IdleMsg]
  /\ evaluateReq = IdleEvaluate
  /\ httpStatus = [route |-> "", status |-> 0]
  /\ requestsLeft = MaxPolls * Cardinality(Msgs)
  /\ staleCache = {}
  /\ ScoringIdle
  /\ draftCall = None
  /\ draftOut = None
  /\ agentState = DefaultAgentState
  /\ conversationStatus = "drafting_rfp"
  /\ sentEmails = {}
  /\ turnsLeft = 0
  /\ response = [route |-> "", status |-> 0, stateUpdate |-> None]
  /\ turn = [p \in Turns |-> IdleTurn]
  /\ poll = [isPolling |-> FALSE, pc |-> "idle", pollsLeft |-> MaxPolls]
  /\ mail = [retries |-> 0, attempts |-> <<>>, result |-> "idle"]

\* The messages of a fetch are processed once each, while it lasts.
NextPoller ==
  \/ PollInbox
  \/ \E found \in BOOLEAN : PollCallback(found)
  \/ PollError
  \/ \E m \in Msgs : MsgRejected(m)
  \/ \E m \in Msgs, email \in Emails :
       poll.pc = "fetching" /\ pollerMsg[m].pc = "idle" /\ MsgStart(m, email)
  \/ \E m \in Msgs : MsgParseFailed(m)
  \/ \E m \in Msgs : MsgFindExisting(m)
  \/ \E m \in Msgs : MsgWrite(m)
  \/ \E m \in Msgs : MsgInvalidate(m)
  \/ PollEnd

\* The steps that come in the end once they can be taken: the ticks of the
\* schedule, the callbacks, and the awaited queries of a message.  Errors
\* need not happen.
PollerSteps ==
  \/ PollInbox
  \/ \E found \in BOOLEAN : PollCallback(found)
  \/ \E m \in Msgs : MsgParseFailed(m)
  \/ \E m \in Msgs : MsgFindExisting(m)
  \/ \E m \in Msgs : MsgInvalidate(m)
  \/ PollEnd

\* The first message of a fetch is begun in the end, and so is the write of
\* a message: MsgStart can be taken while no message of the fetch has
\* begun, MsgWrite(m) while m is at "writing", and each step ends that.
PollerFairness ==
  /\ WF_vars(PollerSteps)
  /\ []<>(~(poll.pc = "fetching" /\ \A m \in Msgs : pollerMsg[m].pc = "idle"))
  /\ \A m \in Msgs : []<>(pollerMsg[m].pc # "writing")

SpecPoller == InitPoller /\ [][NextPoller]_vars /\ PollerFairness

InitMail ==
  /\ WorkflowInit
  /\ ScoringIdle
  /\ draftCall = None
  /\ draftOut = None
  /\ agentState = DefaultAgentState
  /\ conversationStatus = "drafting_rfp"
  /\ sentEmails = {}
  /\ turnsLeft = 0
  /\ response = [route |-> "", status |-> 0, stateUpdate |-> None]
  /\ turn = [p \in Turns |-> IdleTurn]
  /\ poll = [isPolling |-> FALSE, pc |-> "idle", pollsLeft |-> 0]
  /\ mail = [retries |-> 2, attempts |-> <<>>, result |-> "pending"]

NextMail == \E outcome \in MailOutcomes : SendAttempt(outcome)

\* sendMail settles: its promise is resolved or rejected in the end.
SpecMail == InitMail /\ [][NextMail]_vars /\ WF_vars(NextMail)

(***************************************************************************)
(* Properties of the comparison cache                                      *)
(***************************************************************************)
cacheAbsent(r) ==
  /\ Val(rfpsTable[r]).comparisonCache = None
  /\ Val(rfpsTable[r]).comparisonCacheUpdatedAt = None

\* a poller message has written its proposal under r and not yet cleared the cache
invalidationPending(r) ==
  \E m \in Msgs : pollerMsg[m].pc = "invalidating" /\ Val(pollerMsg[m].rfp).id = r

\* what compareProposals yields for the rows stored now
freshComparison(r) == compareProposals(Val(rfpsTable[r]), RowsById(ProposalsOf(r)))

\* C1: an invalidation caused by a poller write or by an RFP requirements or
\* budget update is never overwritten by a stale cache write: once the compare
\* request has finished (and every invalidation has been applied), the stored
\* comparison is absent, or was computed from data that include the change,
\* or at least equals what the current data yield.
C1_InvalidationNotOverwritten ==
  \A r \in RfpIds :
    (rfpsTable[r] # None /\ compareReq.pc # "computing" /\ ~invalidationPending(r))
    => \/ Val(rfpsTable[r]).comparisonCache = None
       \/ r \notin staleCache
       \/ Val(rfpsTable[r]).comparisonCache = Some(freshComparison(r))

\* C2: every creation or update of a proposal under an RFP, by any path,
\* leaves comparisonCache and comparisonCacheUpdatedAt of that RFP absent when
\* the operation is over (for the poller: after its invalidating update; for
\* evaluate-all: after its last row).
C2_ProposalWriteClearsCache ==
  [][\A r \in RfpIds :
       rfpsTable[r] # None =>
         /\ (/\ ProposalsOf(r)' # ProposalsOf(r)
             /\ ~invalidationPending(r)'
             /\ evaluateReq'.pc # "evaluating")
            => cacheAbsent(r)'
         /\ (\E m \in Msgs : /\ pollerMsg[m].pc = "invalidating"
                             /\ Val(pollerMsg[m].rfp).id = r
                             /\ pollerMsg'[m].pc = "done")
            => cacheAbsent(r)']_vars

\* C3: a step that changes the budget or the requirements of an RFP row
\* leaves comparisonCache and comparisonCacheUpdatedAt null in the same step.
C3_RfpWriteClearsCache ==
  [][\A r \in RfpIds :
       (/\ rfpsTable[r] # None
        /\ rfpsTable'[r] # None
        /\ \/ Val(rfpsTable'[r]).budget # Val(rfpsTable[r]).budget
           \/ Val(rfpsTable'[r]).requirements # Val(rfpsTable[r]).requirements)
       => cacheAbsent(r)']_vars

\* C3 witness: a comparison was stored for r1, then the budget of r1 was
\* changed by an RFP write, and the cache is gone.
C3_Witness ==
  /\ compareReq.pc = "done" /\ compareReq.regenerated /\ compareReq.rfpId = "r1"
  /\ \A m \in Msgs : pollerMsg[m].pc = "idle"
  /\ Val(rfpsTable["r1"]).budget = Some(200)
  /\ cacheAbsent("r1")

\* C4: GET /compare/:rfpId without refresh, for an RFP with proposals,
\* answers from the stored comparison exactly when a cache and its timestamp
\* are present, the cache holds as many evaluations as there are proposals,
\* and its timestamp is not older than any proposal's updatedAt; otherwise it
\* recomputes, and the comparison it computed is what it stores.
C4_CacheServedIffValid ==
  [][/\ \A r \in RfpIds :
          (/\ compareReq.pc # "computing"
           /\ compareReq' # compareReq
           /\ compareReq'.rfpId = r
           /\ ~compareReq'.refresh
           /\ rfpsTable[r] # None
           /\ ProposalsOf(r) # {})
          => LET rfp == Val(rfpsTable[r])
                 valid ==
                   /\ rfp.comparisonCache # None
                   /\ rfp.comparisonCacheUpdatedAt # None
                   /\ Len(Val(rfp.comparisonCache).evaluations) = Cardinality(ProposalsOf(r))
                   /\ \A p \in ProposalsOf(r) : Val(rfp.comparisonCacheUpdatedAt) >= p.updatedAt
             IN /\ valid => /\ compareReq'.pc = "done"
                            /\ compareReq'.status = 200
                            /\ ~compareReq'.regenerated
                            /\ rfpsTable' = rfpsTable
                /\ ~valid => compareReq'.pc = "computing"
     /\ (compareReq.pc = "computing" /\ compareReq'.pc = "done" /\ compareReq'.status = 200)
        => LET r == compareReq.rfpId
           IN /\ compareReq'.regenerated
              /\ rfpsTable[r] # None
                 => /\ Val(rfpsTable'[r]).comparisonCache =
                         Some(compareProposals(Val(compareReq.rfp), compareReq.proposals))
                    /\ Val(rfpsTable'[r]).comparisonCacheUpdatedAt # None]_vars

\* C4 witness: a request without refresh found a comparison of one proposal,
\* not older than any proposal, while the RFP has two proposals, and is
\* recomputing.
C4_Witness ==
  /\ compareReq.pc = "computing"
  /\ ~compareReq.refresh
  /\ Len(compareReq.proposals) = 2
  /\ LET rfp == Val(compareReq.rfp)
     IN /\ rfp.comparisonCache # None
        /\ rfp.comparisonCacheUpdatedAt # None
        /\ Len(Val(rfp.comparisonCache).evaluations) = 1
        /\ \A i \in 1..2 : Val(rfp.comparisonCacheUpdatedAt) >= compareReq.proposals[i].updatedAt

(***************************************************************************)
(* Properties of the proposals                                             *)
(***************************************************************************)
UniquePairs ==
  \A p, q \in proposalsTable : (p.rfpId = q.rfpId /\ p.vendorId = q.vendorId) => p = q

\* the proposals stored for a pair
pairProposals(r, v) == {p \in proposalsTable : p.rfpId = r /\ p.vendorId = v}

\* C5: there is never more than one proposal per (rfpId, vendorId) pair; an
\* insert for a pair that has a proposal, by the poller or by POST /proposals,
\* fails and leaves the stored proposals as they were.
C5_OneProposalPerPair ==
  /\ []UniquePairs
  /\ [][/\ \A m \in Msgs :
             (/\ MsgWrite(m)
              /\ pollerMsg[m].existing = None
              /\ pairProposals(Val(pollerMsg[m].rfp).id, Val(pollerMsg[m].vendorId)) # {})
             => /\ proposalsTable' = proposalsTable
                /\ pollerMsg'[m].outcome = "insert_failed"
        /\ \A r \in RfpIds, v \in VendorIds, b \in ProposalBodies :
             (/\ PostProposal([b EXCEPT !.rfpId = Some(r), !.vendorId = Some(v)])
              /\ pairProposals(r, v) # {})
             => /\ proposalsTable' = proposalsTable
                /\ httpStatus'.status = 500]_vars

\* C5 witness: a poller insert was refused because the pair had a proposal,
\* and a POST /proposals was answered with an error.
C5_Witness ==
  /\ \E m \in Msgs : pollerMsg[m].outcome = "insert_failed"
  /\ httpStatus = [route |-> "POST /proposals", status |-> 500]
  /\ Cardinality(proposalsTable) = 2

\* C6: no matched vendor reply is dropped because a proposal for its pair
\* exists: a reply whose processing is over has created or updated the
\* proposal, unless it matched nothing or could not be parsed.
C6_NoReplyDropped ==
  \A m \in Msgs :
    pollerMsg[m].pc = "done"
    => pollerMsg[m].outcome \in {"skipped", "parse_failed", "created", "updated"}

\* the budget and requirements an evaluation can have been computed against:
\* those stored now, and those a poller message has read
rfpViews(r) ==
  {[budget |-> Val(rfpsTable[r]).budget, requirements |-> Val(rfpsTable[r]).requirements]}
  \cup {[budget |-> Val(pollerMsg[m].rfp).budget, requirements |-> Val(pollerMsg[m].rfp).requirements] :
          m \in {k \in Msgs : pollerMsg[k].rfp # None /\ Val(pollerMsg[k].rfp).id = r}}

structuredFields(p) ==
  <<p.totalPrice, p.deliveryDays, p.paymentTerms, p.warranty, p.notes, p.completeness>>

\* C7: a step that changes the structured fields of a stored proposal leaves
\* in it the evaluation evaluateProposal gives for the new fields.
C7_EvaluationFollowsFields ==
  [][\A p \in proposalsTable : \A q \in proposalsTable' :
       (q.id = p.id /\ structuredFields(q) # structuredFields(p) /\ rfpsTable[p.rfpId] # None)
       => \E rfp \in rfpViews(p.rfpId) :
            q.parsedData.evaluation =
              Some(embeddedEvaluation(evaluateProposal(proposalForEvaluation(q), rfp)))]_vars

(***************************************************************************)
(* Properties of the scores                                                *)
(***************************************************************************)
\* every completeness the evaluated proposal carries lies in [0, 1]
completenessInRange ==
  LET proposal == Val(evalCall).proposal
      inRange(c) == c = None \/ Val(c) \in 0..1000
  IN /\ inRange(proposal.completeness)
     /\ proposal.parsedData # None => inRange(Val(proposal.parsedData).completeness)

C9_NeutralScores ==
  (/\ evalOut # None
   /\ Val(evalCall).rfp.budget = None
   /\ Val(evalCall).rfp.requirements.deliveryDays = None
   /\ Val(evalCall).rfp.requirements.paymentTerms = None
   /\ Val(evalCall).rfp.requirements.warranty = None
   /\ Val(evalCall).proposal.totalPrice # None
   /\ Val(evalCall).proposal.deliveryDays # None
   /\ Val(evalCall).proposal.paymentTerms # None
   /\ Val(evalCall).proposal.warranty # None)
  => LET c == Val(evalOut).criteria
     IN /\ c.price.score = 80
        /\ c.delivery.score = 80
        /\ c.paymentTerms.score = 80
        /\ c.warranty.score = 80

\* C10: for one budget, of two prices under the budget the one nearer to it
\* scores no lower, and of two prices at or over the budget the one farther
\* from it scores no higher.
C10_PriceMonotone ==
  priceOut # None
  => LET budget == Val(priceCall).budget
         priceA == Val(priceCall).priceA
         priceB == Val(priceCall).priceB
         scoreA == Val(priceOut).resultA.score
         scoreB == Val(priceOut).resultB.score
     IN /\ (priceA < budget /\ priceB < budget /\ budget - priceA <= budget - priceB)
           => scoreA >= scoreB
        /\ (priceA >= budget /\ priceB >= budget /\ priceA - budget >= priceB - budget)
           => scoreA <= scoreB

\* C10 witness: budget 100, one price in the last fixed tier under the
\* budget (50% under) and one on the linear tail (55% under).
C10_Witness ==
  /\ priceOut # None
  /\ Val(priceCall) = [budget |-> 100, priceA |-> 50, priceB |-> 45]
  /\ Val(priceOut).resultA.score = 60
  /\ Val(priceOut).resultB.score = 43

(***************************************************************************)
(* Properties of the scorers, continued                                    *)
(***************************************************************************)
\* the value evaluateProposal hands to a scorer: proposal.f ?? parsedData.f
effectiveField(f) ==
  LET proposal == Val(evalCall).proposal
  IN Coalesce(proposal[f],
              IF proposal.parsedData = None THEN None ELSE Val(proposal.parsedData)[f])

\* C18: when the proposal carries no value for a field, its criterion gets
\* the missing-field score whether or not the RFP states the matching
\* budget or requirement: price 0, delivery 0, payment terms 50, warranty 50.
C18_MissingFieldFirst ==
  evalOut # None
  => LET c == Val(evalOut).criteria
     IN /\ effectiveField("totalPrice") = None => c.price.score = 0
        /\ effectiveField("deliveryDays") = None => c.delivery.score = 0
        /\ effectiveField("paymentTerms") = None => c.paymentTerms.score = 50
        /\ effectiveField("warranty") = None => c.warranty.score = 50

\* C18 witness: a proposal without price, delivery days, payment terms and
\* warranty evaluated against an RFP that states none of them.
C18_Witness ==
  /\ evalOut # None
  /\ Val(evalCall).rfp = [budget |-> None, requirements |-> NoRequirements]
  /\ \A f \in {"totalPrice", "deliveryDays", "paymentTerms", "warranty"} : effectiveField(f) = None
  /\ LET c == Val(evalOut).criteria
     IN <<c.price.score, c.delivery.score, c.paymentTerms.score, c.warranty.score>> = <<0, 0, 50, 50>>

\* C20: for a price and a budget that are both given, matchesBudget is true
\* exactly when the price deviates from the budget by at most 10% of the
\* budget, in either direction.
C20_MatchesBudgetAbsolute ==
  (priceOut # None /\ Val(priceCall).priceA > 0)
  => LET budget == Val(priceCall).budget
         priceA == Val(priceCall).priceA
     IN Val(priceOut).resultA.matchesBudget <=> (Abs(priceA - budget) * 100 <= 10 * budget)

\* the place of a vendor's proposal in the list handed to evaluateProposals
rankInputPlace(vendorId) ==
  CHOOSE i \in 1..Len(Val(rankCall).proposals) : Val(rankCall).proposals[i].vendor = vendorId

\* C17: evaluateProposals returns one evaluation for each proposal of its
\* list, highest overallScore first, and evaluations with the same
\* overallScore in the order of their proposals in the list.
C17_RankedStable ==
  rankOut # None
  => LET proposals == Val(rankCall).proposals
         out == Val(rankOut)
     IN /\ Len(out) = Len(proposals)
        /\ {out[j].vendorId : j \in 1..Len(out)} = {proposals[i].vendor : i \in 1..Len(proposals)}
        /\ \A j, k \in 1..Len(out) :
             j < k => /\ out[j].overallScore >= out[k].overallScore
                      /\ out[j].overallScore = out[k].overallScore
                         => rankInputPlace(out[j].vendorId) < rankInputPlace(out[k].vendorId)

\* C17 witness: three proposals, the first scoring lowest and the other two
\* the same, come back as second, third, first.
C17_Witness ==
  /\ rankOut # None
  /\ Len(Val(rankOut)) = 3
  /\ [j \in 1..3 |-> Val(rankOut)[j].vendorId] = <<"v2", "v3", "v1">>
  /\ Val(rankOut)[1].overallScore = Val(rankOut)[2].overallScore
  /\ Val(rankOut)[2].overallScore > Val(rankOut)[3].overallScore

\* C11: when a fragment has been merged into a draft, no two items of the
\* merged requirements have the same name once trimmed and lower-cased: an
\* incoming "laptop" is dropped in favour of the existing "Laptop".
C11_DedupNormalizedName ==
  (/\ draftCall # None
   /\ draftOut # None
   /\ Val(draftOut).merged # None
   /\ DOMAIN Val(draftCall).draftUpdate = {"object"}
   /\ DOMAIN Val(Val(draftOut).merged).requirements = {"object"})
  => \A i, j \in 1..Len(Val(Val(draftOut).merged).requirements.object.items.array) :
       (/\ i < j
        /\ DOMAIN Val(Val(draftOut).merged).requirements.object.items.array[i] = {"item"}
        /\ DOMAIN Val(Val(draftOut).merged).requirements.object.items.array[j] = {"item"})
       => toLowerCase(trim(Val(Val(draftOut).merged).requirements.object.items.array[i].item.name))
          # toLowerCase(trim(Val(Val(draftOut).merged).requirements.object.items.array[j].item.name))

\* C12: merging the empty fragment {} into a merged draft changes nothing:
\* normalize(normalize(A, B), {}) = normalize(A, B) for every draft A and
\* every fragment B, null included.
C12_EmptyFragmentNoOp ==
  (/\ draftOut # None
   /\ Val(draftOut).merged # None
   /\ Val(draftOut).again # None)
  => Val(Val(draftOut).again) = Val(draftOut).merged

\* C13: normalize returns a draft for every existing draft and every
\* fragment, however malformed; it never throws.
C13_NormalizeTotal ==
  draftOut # None => Val(draftOut).merged # None

\* C14: no request of a conversation loses an item of its draft: the items
\* the stored draft holds before a step are, unchanged and in their order,
\* the first items of the draft after it (incoming items are appended), and
\* no two items of the stored draft have the same name.
C14_ItemsNeverLost ==
  [][LET items(d) == IF DOMAIN d.requirements = {"object"}
                        /\ DOMAIN d.requirements.object.items = {"array"}
                     THEN d.requirements.object.items.array ELSE <<>>
     IN /\ Len(items(agentState.rfpDraft)) <= Len(items(agentState'.rfpDraft))
        /\ \A i \in 1..Len(items(agentState.rfpDraft)) :
             items(agentState'.rfpDraft)[i] = items(agentState.rfpDraft)[i]
        /\ \A i, j \in 1..Len(items(agentState'.rfpDraft)) :
             items(agentState'.rfpDraft)[i].item.name = items(agentState'.rfpDraft)[j].item.name
             => i = j]_vars

\* A turn has appended an incoming "laptop" to a draft that held "Laptop",
\* and a later turn has sent "Laptop" again.
C14_Witness ==
  /\ response.route = "message"
  /\ response.status = 200
  /\ response.stateUpdate # None
  /\ DOMAIN Val(response.stateUpdate).rfpDraft = {"object"}
  /\ Val(response.stateUpdate).rfpDraft.object.title = [string |-> "Laptops"]
  /\ DOMAIN agentState.rfpDraft.requirements = {"object"}
  /\ Len(agentState.rfpDraft.requirements.object.items.array) = 2
  /\ agentState.rfpDraft.requirements.object.items.array[1].item.name = "Laptop"
  /\ agentState.rfpDraft.requirements.object.items.array[2].item.name = "laptop"

\* C15 as stated: createRfpFromDraft inserts an RFP whenever the title of
\* the merged draft is a text other than '' and the draft has a description
\* other than '' or an item.
C15_NonEmptyPersisted ==
  [][(/\ response'.route = "message"
      /\ response'.status = 200
      /\ response'.stateUpdate # None
      /\ truthy(Val(response'.stateUpdate).rfpDraft)
      /\ ~TruthyStr(IF Val(response'.stateUpdate).rfpId # None
                    THEN Val(response'.stateUpdate).rfpId ELSE agentState.rfpId)
      /\ \E d \in {Val(normalizeRfpDraft(agentState'.rfpDraft, Val(response'.stateUpdate).rfpDraft))} :
           /\ DOMAIN d.title = {"string"}
           /\ d.title.string # ""
           /\ \/ DOMAIN d.description = {"string"} /\ d.description.string # ""
              \/ DOMAIN d.requirements = {"object"} /\ d.requirements.object.items.array # <<>>)
     => \E r \in RfpIds : rfpsTable[r] = None /\ rfpsTable'[r] # None]_vars

\* C15, amended: createRfpFromDraft inserts an RFP with status draft and
\* returns its id if and only if the merged draft has a title that is not
\* blank and a description that is not blank or at least one item
\* (whitespace alone counts as empty); otherwise it returns null and no row
\* changes.
C15_EligibleIffPersisted ==
  [][(/\ response'.route = "message"
      /\ response'.status = 200
      /\ response'.stateUpdate # None
      /\ truthy(Val(response'.stateUpdate).rfpDraft)
      /\ ~TruthyStr(IF Val(response'.stateUpdate).rfpId # None
                    THEN Val(response'.stateUpdate).rfpId ELSE agentState.rfpId))
     => \E d \in {Val(normalizeRfpDraft(agentState'.rfpDraft, Val(response'.stateUpdate).rfpDraft))} :
          IF /\ DOMAIN d.title = {"string"}
             /\ \E i \in 1..Len(d.title.string) : ~IsSpace(CharAt(d.title.string, i))
             /\ \/ /\ DOMAIN d.description = {"string"}
                   /\ \E i \in 1..Len(d.description.string) : ~IsSpace(CharAt(d.description.string, i))
                \/ /\ DOMAIN d.requirements = {"object"}
                   /\ d.requirements.object.items.array # <<>>
          THEN \E r \in RfpIds :
                 /\ rfpsTable[r] = None
                 /\ rfpsTable'[r] # None
                 /\ Val(rfpsTable'[r]).status = "draft"
                 /\ agentState'.rfpId = Some(r)
                 /\ \A q \in RfpIds \ {r} : rfpsTable'[q] = rfpsTable[q]
          ELSE /\ rfpsTable' = rfpsTable
               /\ ~TruthyStr(agentState'.rfpId)]_vars

\* The second turn of a conversation has created its RFP from a draft with
\* a title and an item but no description.
C15_Witness ==
  /\ response.route = "message"
  /\ response.status = 200
  /\ agentState.rfpId = Some("r1")
  /\ rfpsTable["r1"] # None
  /\ Val(rfpsTable["r1"]).status = "draft"
  /\ Val(rfpsTable["r1"]).title = "Laptops"
  /\ Val(rfpsTable["r1"]).createdAt > 0
  /\ DOMAIN agentState.rfpDraft.description = {"undefined"}
  /\ turnsLeft = MaxTurns - 2

\* C16: once the agent state holds the id of the RFP made from the draft,
\* no later request replaces that id and no later turn creates another RFP.
C16_RfpIdKept ==
  [][(/\ TruthyStr(agentState.rfpId)
      /\ Val(agentState.rfpId) \in RfpIds
      /\ rfpsTable[Val(agentState.rfpId)] # None)
     => /\ agentState'.rfpId = agentState.rfpId
        /\ \A r \in RfpIds : rfpsTable[r] = None => rfpsTable'[r] = None]_vars

\* C19: a send-rfp request that names the conversation while its workflow
\* step is not ready_to_send is rejected: no e-mail of the conversation is
\* recorded and neither the agent state nor any status changes.
C19_SendOnlyWhenReady ==
  [][(/\ response'.route = "send-rfp"
      /\ turnsLeft' # turnsLeft
      /\ agentState.workflowStep # "ready_to_send")
     => /\ \A e \in sentEmails' \ sentEmails : e.conversationId = None
        /\ agentState' = agentState
        /\ conversationStatus' = conversationStatus]_vars

\* C21: a fragment whose budget is '', null or a text that is not a number
\* leaves the budget of the existing draft in the merged draft.
C21_BudgetKept ==
  (/\ draftCall # None
   /\ draftOut # None
   /\ Val(draftOut).merged # None
   /\ DOMAIN Val(draftCall).draftUpdate = {"object"}
   /\ \/ DOMAIN Val(draftCall).draftUpdate.object.budget = {"null"}
      \/ /\ DOMAIN Val(draftCall).draftUpdate.object.budget = {"string"}
         /\ DigitRun(Val(draftCall).draftUpdate.object.budget.string, 1) = "")
  => Val(Val(draftOut).merged).budget = Val(draftCall).existingDraft.budget

\* C22: whenever a step replaces the stored requirements of an RFP, the new
\* requirements carry at least one sub-field that is not empty: a draft
\* without requirement data leaves the stored requirements as they were.
C22_RequirementsNotWiped ==
  [][\A r \in RfpIds :
       (/\ rfpsTable[r] # None
        /\ rfpsTable'[r] # None
        /\ Val(rfpsTable'[r]).requirements # Val(rfpsTable[r]).requirements)
       => \/ Val(rfpsTable'[r]).requirements.items # <<>>
          \/ TruthyNum(Val(rfpsTable'[r]).requirements.deliveryDays)
          \/ TruthyStr(Val(rfpsTable'[r]).requirements.paymentTerms)
          \/ TruthyStr(Val(rfpsTable'[r]).requirements.warranty)
          \/ Val(rfpsTable'[r]).requirements.otherRequirements # <<>>]_vars

\* updateRfpFromDraft has stored the title of a draft whose requirements
\* are all empty, and the RFP still has the requirements it had.
C22_Witness ==
  /\ rfpsTable["r1"] # None
  /\ Val(rfpsTable["r1"]).title = "Laptops for sales"
  /\ Val(rfpsTable["r1"]).requirements = LaptopRequirements

\* C23: normalize leaves both of its arguments as they were, the
\* requirements object of the fragment included.
C23_ArgumentsUnchanged ==
  draftOut # None => Val(draftOut).arguments = Val(draftCall)

\* C24: when the price score is under 60 the evaluation carries exactly one
\* price weakness, worded "over" exactly when the proposal's price is above
\* the budget and "under" exactly when it is below the budget, and the price
\* concern exactly when the price deviates from the budget by more than 30%.
C24_PriceWeaknessDirection ==
  (evalOut # None /\ Val(evalOut).criteria.price.score < 60)
  => \E price \in {effectiveField("totalPrice")}, budget \in {Val(evalCall).rfp.budget} :
       /\ Cardinality({i \in 1..Len(Val(evalOut).weaknesses) :
                         Val(evalOut).weaknesses[i] \in {"Price significantly over budget",
                                                         "Price significantly under budget"}}) = 1
       /\ (\E i \in 1..Len(Val(evalOut).weaknesses) :
             Val(evalOut).weaknesses[i] = "Price significantly over budget")
          <=> (price # None /\ budget # None /\ Val(price) > Val(budget))
       /\ (\E i \in 1..Len(Val(evalOut).weaknesses) :
             Val(evalOut).weaknesses[i] = "Price significantly under budget")
          <=> (price # None /\ budget # None /\ Val(price) < Val(budget))
       /\ (\E i \in 1..Len(Val(evalOut).concerns) :
             Val(evalOut).concerns[i] = "Price deviation may be a concern")
          <=> (/\ price # None
               /\ budget # None
               /\ Abs(Val(price) - Val(budget)) * 100 > 30 * Val(budget))

\* C25: an RFP that send-rfp has set to sent has a SentEmail record, that
\* is, a vendor its e-mail was delivered to.
C25_SentOnlyOnDispatch ==
  \A r \in RfpIds :
    (rfpsTable[r] # None /\ Val(rfpsTable[r]).status = "sent")
    => \E e \in sentEmails : e.rfpId = r

\* C29: after a message turn in which processRfpDraft has created the RFP,
\* the conversation's status and the agent state's workflowStep are both
\* ready_to_send, whatever workflowStep the stateUpdate carried.
C29_ReadyAfterCreation ==
  [][(/\ response'.route = "message"
      /\ \E r \in RfpIds : rfpsTable[r] = None /\ rfpsTable'[r] # None)
     => /\ conversationStatus' = "ready_to_send"
        /\ agentState'.workflowStep = "ready_to_send"]_vars


(***************************************************************************)
(* Properties of the poller, of concurrent turns and of sendRFPEmail       *)
(***************************************************************************)
\* C26: the poller attaches a vendor's reply only to an RFP whose status
\* is 'sent': every stored proposal belongs to a sent RFP, never to a
\* draft.
C26_RepliesOnlyToSent ==
  \A p \in proposalsTable :
    rfpsTable[p.rfpId] # None /\ Val(rfpsTable[p.rfpId]).status = "sent"

\* C27: two message requests of one conversation that run concurrently
\* create at most one RFP for it.
C27_OneRfpPerConversation ==
  Cardinality({r \in RfpIds : rfpsTable[r] # None}) <= 1

\* C28: the isPolling guard is released on every path of a poll, a message
\* whose parsing fails included: whenever it is set, it is cleared later.
C28_GuardReleased == poll.isPolling ~> ~poll.isPolling

\* The errors after which a retry is allowed.
TransientError(error) ==
  \/ error.code \in {"ETIMEDOUT", "ECONNRESET", "ECONNREFUSED", "EAI_AGAIN"}
  \/ includes(error.message, "timeout")

\* C30: sendRFPEmail with the default of 2 retries ends with success or a
\* thrown error after at most 3 attempts; an attempt is followed by another
\* only after a retryable error, and each retry takes one from retries.
C30_RetryTerminates ==
  /\ [](/\ Len(mail.attempts) <= 3
        /\ \A i \in 1..(Len(mail.attempts) - 1) :
             mail.attempts[i].code # "" /\ TransientError(mail.attempts[i])
        /\ mail.result = "pending" => mail.retries = 2 - Len(mail.attempts)
        /\ mail.result \in {"success", "thrown"} => mail.retries = 3 - Len(mail.attempts)
        /\ mail.result = "success" => mail.attempts[Len(mail.attempts)].code = ""
        /\ mail.result = "thrown" => mail.attempts[Len(mail.attempts)].code # "")
  /\ <>(mail.result \in {"success", "thrown"})

\* The third attempt times out as the two before it, and the call throws.
C30_Witness ==
  /\ mail.result = "thrown"
  /\ Len(mail.attempts) = 3
  /\ \A i \in 1..3 : mail.attempts[i].code = "ETIMEDOUT"
  /\ mail.retries = 0

====
